---- MODULE Spec2Model ----
(***************************************************************************)
(* Prism host core: fleet manifest, provisioning / removal engine, service *)
(* health probe and the periodic update-reconciliation loop.               *)
(*                                                                         *)
(* Strings are sequences of one-character strings, so that formatting      *)
(* (Sprintf "%s-%d"), parsing (Atoi, SplitN, Index) and normalisation      *)
(* (TrimSpace) are computed as the code computes them.                     *)
(***************************************************************************)
EXTENDS Integers, Sequences, FiniteSets, TLC

\* ------------------------------------------------------------------ bounds
\* Largest numeric suffix a member may get while the update loop runs.
MaxIdx == 2
\* Largest numeric suffix a member may get from the engines run on their own.
MaxProvIdx == 3
\* Largest batch size of one Initial / Add provisioning call.
MaxBatch == 2
\* Largest number of members of a manifest whose write is followed byte by byte.
MaxStore == 1
\* Number of distinct release tags the remote may publish ("v1" .. ).
MaxTag == 2
\* globals.service.start_port of the configuration file.
StartPort == 10001

\* ------------------------------------------------------ program constants
maxRetries == 3
initialBackoff == 1
maxBackoff == 30

\* --------------------------------------------------------- string helpers
Digits == <<"0", "1", "2", "3", "4", "5", "6", "7", "8", "9">>

DigitVal(c) == CHOOSE d \in 0..9 : Digits[d + 1] = c

IsDigit(c) == \E d \in 0..9 : Digits[d + 1] = c

IsSpace(c) == c \in {" ", "\n", "\t", "\r"}

RECURSIVE Itoa(_)
\* fmt.Sprintf("%d", n) for n >= 0
Itoa(n) == IF n < 10 THEN <<Digits[n + 1]>>
           ELSE Itoa(n \div 10) \o <<Digits[(n % 10) + 1]>>

RECURSIVE DigitsVal(_, _)
DigitsVal(s, acc) == IF s = <<>> THEN acc
                     ELSE DigitsVal(Tail(s), acc * 10 + DigitVal(Head(s)))

\* strconv.Atoi: optional sign, then one or more decimal digits.
Atoi(s) ==
  LET body == IF s # <<>> /\ Head(s) \in {"+", "-"} THEN Tail(s) ELSE s
      neg  == s # <<>> /\ Head(s) = "-"
  IN IF body = <<>> \/ \E k \in 1..Len(body) : ~IsDigit(body[k])
       THEN [ok |-> FALSE, val |-> 0]
       ELSE [ok |-> TRUE,
             val |-> IF neg THEN 0 - DigitsVal(body, 0) ELSE DigitsVal(body, 0)]

HasPrefix(s, p) == Len(s) >= Len(p) /\ SubSeq(s, 1, Len(p)) = p

TrimPrefix(s, p) == IF HasPrefix(s, p) THEN SubSeq(s, Len(p) + 1, Len(s)) ELSE s

\* strings.Index for a one-character separator, 1-based; 0 when absent.
Index(s, c) == IF \E k \in 1..Len(s) : s[k] = c
                 THEN CHOOSE k \in 1..Len(s) : s[k] = c /\ \A j \in 1..(k - 1) : s[j] # c
                 ELSE 0

RECURSIVE TrimLeft(_)
TrimLeft(s) == IF s # <<>> /\ IsSpace(Head(s)) THEN TrimLeft(Tail(s)) ELSE s

RECURSIVE TrimRight(_)
TrimRight(s) == IF s # <<>> /\ IsSpace(s[Len(s)])
                  THEN TrimRight(SubSeq(s, 1, Len(s) - 1)) ELSE s

TrimSpace(s) == TrimRight(TrimLeft(s))

\* strings.SplitN(s, "/", 3)
SplitN3(s) ==
  LET i1 == Index(s, "/")
      r1 == SubSeq(s, i1 + 1, Len(s))
      i2 == Index(r1, "/")
  IN IF i1 = 0 THEN <<s>>
     ELSE IF i2 = 0 THEN <<SubSeq(s, 1, i1 - 1), r1>>
     ELSE <<SubSeq(s, 1, i1 - 1), SubSeq(r1, 1, i2 - 1), SubSeq(r1, i2 + 1, Len(r1))>>

\* ---------------------------------------------------------- configuration
MachineID == <<"m">>

GhPrefix == <<"g", "h", ":", "/", "/">>

TagOf(k) == <<"v">> \o Itoa(k)

Tags == {TagOf(k) : k \in 1..MaxTag}

UrlLiteral == <<"h", "t", "t", "p", ":", "/", "/", "x">>
UrlLatest  == GhPrefix \o <<"o", "/", "r", "/", "a">>
UrlPinned(t) == UrlLatest \o <<"@">> \o t

\* archive_url values an operator may configure (Validate rejects the empty one).
ArchiveURLs == {UrlLiteral, UrlLatest, UrlPinned(TagOf(1))}

\* fmt.Sprintf("%s-%d", machineID, i)
UserName(i) == MachineID \o <<"-">> \o Itoa(i)

\* Variant: the port is counted from the suffix, not from suffix - 1.
LocalPortFromSuffix(i) == StartPort + i

\* cfg.Globals.Service.StartPort + i - 1
LocalPort(i) == StartPort + i - 1

NoFile == [exists |-> FALSE, data |-> <<>>]

\* state.State and state.User (the random subdomain is not modelled)
EmptyState == [initialized |-> FALSE, users |-> <<>>]

User(name, port) == [name |-> name, port |-> port]

Names(users) == {users[k].name : k \in 1..Len(users)}

\* ------------------------------------------------------------- variables
VARIABLES
  archiveURL,   \* globals.service.archive_url of the configuration file
  manifest,     \* the state file: [exists, st]
  ledger,       \* cache/current_version.txt: [exists, data]
  osUsers,      \* names of the macOS identities that exist
  dirs,         \* names whose /Users/<name>/services/imsg directory exists
  lastOp,       \* outcome of the last interactive Initializer call
  highWater,    \* highest suffix the manifest has held since the last Initial (history)
  pc,           \* position of the auto-update loop
  cyc,          \* locals of the running checkAndUpdate call
  h,            \* what the current / last cycle has done (history)
  prev,         \* summary of the cycle before it (history)
  disk,         \* the files of the stores, byte by byte, and the write under way
  lookup,       \* one fetchLatestRelease call: its inputs and what it returned
  menu,         \* the interactive menu: its Model, the commands in flight, quit
  loop          \* RunAutoUpdateLoop: its ticker, its select, the cancellation of ctx

vars == <<archiveURL, manifest, ledger, osUsers, dirs, lastOp, highWater, pc, cyc, h, prev,
          disk, lookup, loop, menu>>

\* ------------------------------------------------------- Manifest Store
\* state.Load: a missing file is the zero State, not an error.
Load(file) == IF file.exists THEN file.st ELSE EmptyState

\* state.Save: temp file + rename, seen as one step.
Save(st) == [exists |-> TRUE, st |-> st]

\* ------------------------------------------------------- Version Ledger
\* Variant: the file content is returned as it is, trailing newline included.
readCurrentVersionRaw(file) ==
  IF file.exists THEN [tag |-> file.data, err |-> "nil"]
  ELSE [tag |-> <<>>, err |-> "ErrNotExist"]

\* Variant: a missing file reads as an empty tag, without error.
readCurrentVersionLenient(file) ==
  IF file.exists THEN [tag |-> TrimSpace(file.data), err |-> "nil"]
  ELSE [tag |-> <<>>, err |-> "nil"]

\* readCurrentVersion: (tag, err); err is os.ErrNotExist for a missing file.
readCurrentVersion(file) ==
  IF file.exists THEN [tag |-> TrimSpace(file.data), err |-> "nil"]
  ELSE [tag |-> <<>>, err |-> "ErrNotExist"]

\* writeCurrentVersion: the file holds tag + "\n".
writeCurrentVersion(tag) == [exists |-> TRUE, data |-> tag \o <<"\n">>]

\* ---------------------------------------------- Remote Release Resolver
\* One HTTP exchange with the releases/latest endpoint, as the client sees it.
RespOK(tag) == [net |-> TRUE, status |-> 200, decodes |-> TRUE, asset |-> TRUE, tag |-> tag]
RespStatus(code) == [net |-> TRUE, status |-> code, decodes |-> TRUE, asset |-> TRUE, tag |-> <<>>]
RespNetErr == [net |-> FALSE, status |-> 0, decodes |-> FALSE, asset |-> FALSE, tag |-> <<>>]
RespNoAsset(tag) == [net |-> TRUE, status |-> 200, decodes |-> TRUE, asset |-> FALSE, tag |-> tag]
RespGarbage == [net |-> TRUE, status |-> 200, decodes |-> FALSE, asset |-> FALSE, tag |-> <<>>]

\* Variant: every failed exchange is classified retryable.
doFetchAlwaysRetryable(resp) ==
  IF ~resp.net THEN [tag |-> <<>>, retryable |-> TRUE, err |-> "network"]
  ELSE IF resp.status = 429 THEN [tag |-> <<>>, retryable |-> TRUE, err |-> "rate limited"]
  ELSE IF resp.status >= 500 THEN [tag |-> <<>>, retryable |-> TRUE, err |-> "server error"]
  ELSE IF resp.status < 200 \/ resp.status >= 300
    THEN [tag |-> <<>>, retryable |-> TRUE, err |-> "status"]
  ELSE IF ~resp.decodes THEN [tag |-> <<>>, retryable |-> TRUE, err |-> "decode"]
  ELSE IF ~resp.asset THEN [tag |-> <<>>, retryable |-> TRUE, err |-> "asset not found"]
  ELSE [tag |-> resp.tag, retryable |-> FALSE, err |-> "nil"]

\* doFetchLatestRelease: (tag, retryable, err)
doFetchLatestRelease(resp) ==
  IF ~resp.net THEN [tag |-> <<>>, retryable |-> TRUE, err |-> "network"]
  ELSE IF resp.status = 429 THEN [tag |-> <<>>, retryable |-> TRUE, err |-> "rate limited"]
  ELSE IF resp.status >= 500 THEN [tag |-> <<>>, retryable |-> TRUE, err |-> "server error"]
  ELSE IF resp.status < 200 \/ resp.status >= 300
    THEN [tag |-> <<>>, retryable |-> FALSE, err |-> "status"]
  ELSE IF ~resp.decodes THEN [tag |-> <<>>, retryable |-> FALSE, err |-> "decode"]
  ELSE IF ~resp.asset THEN [tag |-> <<>>, retryable |-> FALSE, err |-> "asset not found"]
  ELSE [tag |-> resp.tag, retryable |-> FALSE, err |-> "nil"]

\* Variant: the "@tag" part of the locator is ignored.
fixedTagIgnored(assetSpec) == <<>>

\* The fixed tag of a gh:// locator ("" when there is none).
fixedTagOf(assetSpec) ==
  LET idx == Index(assetSpec, "@")
  IN IF idx > 0 THEN TrimSpace(SubSeq(assetSpec, idx + 1, Len(assetSpec))) ELSE <<>>

\* Variant: the delay is never raised.
nextBackoffSame(b) == b

\* backoff *= 2, capped
nextBackoff(b) == IF b * 2 > maxBackoff THEN maxBackoff ELSE b * 2

RECURSIVE fetchLoopSleepingOn(_, _, _, _, _, _)
\* Variant: the wait before a retry does not listen to ctx.
fetchLoopSleepingOn(attempt, backoff, waits, lastErr, resps, cancelAt) ==
  IF attempt > maxRetries
    THEN [tag |-> <<>>, err |-> "after retries", calls |-> attempt, waits |-> waits]
  ELSE
    LET w == IF attempt > 0 THEN Append(waits, backoff) ELSE waits
        b == IF attempt > 0 THEN nextBackoff(backoff) ELSE backoff
        r == doFetchLatestRelease(resps[attempt + 1])
    IN IF r.err = "nil"
         THEN [tag |-> r.tag, err |-> "nil", calls |-> attempt + 1, waits |-> w]
       ELSE IF ~r.retryable
         THEN [tag |-> <<>>, err |-> r.err, calls |-> attempt + 1, waits |-> w]
       ELSE fetchLoopSleepingOn(attempt + 1, b, w, r.err, resps, cancelAt)

RECURSIVE fetchLoop(_, _, _, _, _, _)
\* The retry loop of fetchLatestRelease. resps[k] is the k-th exchange,
\* cancelAt the number of the wait during which ctx is cancelled (0: never).
fetchLoop(attempt, backoff, waits, lastErr, resps, cancelAt) ==
  IF attempt > maxRetries
    THEN [tag |-> <<>>, err |-> "after retries", calls |-> attempt, waits |-> waits]
  ELSE IF attempt > 0 /\ cancelAt = attempt
    THEN [tag |-> <<>>, err |-> "context canceled", calls |-> attempt, waits |-> waits]
  ELSE
    LET w == IF attempt > 0 THEN Append(waits, backoff) ELSE waits
        b == IF attempt > 0 THEN nextBackoff(backoff) ELSE backoff
        r == doFetchLatestRelease(resps[attempt + 1])
    IN IF r.err = "nil"
         THEN [tag |-> r.tag, err |-> "nil", calls |-> attempt + 1, waits |-> w]
       ELSE IF ~r.retryable
         THEN [tag |-> <<>>, err |-> r.err, calls |-> attempt + 1, waits |-> w]
       ELSE fetchLoop(attempt + 1, b, w, r.err, resps, cancelAt)

\* fetchLatestRelease: (tag, err) plus the exchanges made and the waits slept.
fetchLatestRelease(ghURL, resps, cancelAt) ==
  LET parts == SplitN3(TrimPrefix(ghURL, GhPrefix))
  IN IF Len(parts) # 3
       THEN [tag |-> <<>>, err |-> "invalid url", calls |-> 0, waits |-> <<>>]
     ELSE IF fixedTagOf(parts[3]) # <<>>
       THEN [tag |-> <<>>, err |-> "nil", calls |-> 0, waits |-> <<>>]
     ELSE fetchLoop(0, initialBackoff, <<>>, "nil", resps, cancelAt)

\* A script of exchanges: r retryable answers, then `last` for good.
Script(r, last) == [k \in 1..(maxRetries + 1) |-> IF k <= r THEN RespStatus(429) ELSE last]

\* RecordInitialVersion: the ledger after the call.
RecordInitialVersion(url, file, resps, writeOK) ==
  IF ~HasPrefix(url, GhPrefix) THEN file
  ELSE
    LET f     == fetchLatestRelease(url, resps, 0)
        parts == SplitN3(TrimPrefix(url, GhPrefix))
        tag   == IF f.tag = <<>> /\ Len(parts) = 3 THEN fixedTagOf(parts[3]) ELSE f.tag
    IN IF f.err # "nil" \/ tag = <<>> \/ ~writeOK THEN file
       ELSE writeCurrentVersion(tag)

\* --------------------------------------------------- Provisioning Engine
\* What the OS layer does to a batch: member number `at` of the batch fails
\* at `step` (at = 0: every step succeeds).
NoFail == [at |-> 0, step |-> "none"]

FailSteps == {"check", "create", "secret", "files", "daemons"}

\* The ways the OS layer can fail a batch of n members.
Fails(n) == {[at |-> k, step |-> s] : k \in 1..n, s \in FailSteps}

\* A member loop body that deletes the identity again when a later step of
\* the member fails.
provisionMemberUndoing(idx, acc, failStep) ==
  LET username == MachineID \o <<"-">> \o Itoa(idx)
      called   == [fn \in {"systemUserExists", "createSystemUser", "appendPassword",
                           "ensurePerUserFiles"} |-> [fn |-> fn, name |-> username]]
      upTo(n)  == acc.calls \o SubSeq(<<called["systemUserExists"], called["createSystemUser"],
                                        called["appendPassword"], called["ensurePerUserFiles"]>>,
                                      1, n)
  IN IF failStep = "check" THEN [acc EXCEPT !.calls = upTo(1), !.err = "check user"]
     ELSE IF username \in acc.os THEN [acc EXCEPT !.calls = upTo(1), !.err = "already exists"]
     ELSE IF failStep = "create" THEN [acc EXCEPT !.calls = upTo(2), !.err = "create user"]
     ELSE IF failStep = "secret" THEN [acc EXCEPT !.calls = upTo(3), !.err = "save password"]
     ELSE IF failStep = "files" THEN [acc EXCEPT !.calls = upTo(4), !.err = "per-user files"]
     ELSE IF failStep = "daemons" THEN [acc EXCEPT !.calls = upTo(4), !.err = "launch daemons"]
     ELSE [acc EXCEPT !.calls = upTo(4), !.os = @ \cup {username}, !.dirs = @ \cup {username},
                      !.users = Append(@, [name |-> username, port |-> StartPort + idx - 1])]

\* One call to the OS layer, as the engines issue them.
Call(fn, name) == [fn |-> fn, name |-> name]

\* The body of the member loop of ProvisionUsers / AddUsers for suffix idx:
\* existence check, identity creation, secrets append, per-user files (the
\* service directory, then the two launch daemons).
\* acc = [users, os, dirs, err, calls]; failStep is the step the OS layer fails.
provisionMember(idx, acc, failStep) ==
  LET username == UserName(idx)
      u        == User(username, LocalPort(idx))
      checked  == [acc EXCEPT !.calls = Append(@, Call("systemUserExists", username))]
      created  == [checked EXCEPT !.calls = Append(@, Call("createSystemUser", username))]
      secret   == [created EXCEPT !.calls = Append(@, Call("appendPassword", username))]
      files    == [secret EXCEPT !.calls = Append(@, Call("ensurePerUserFiles", username))]
  IN IF failStep = "check" THEN [checked EXCEPT !.err = "check user"]
     ELSE IF username \in acc.os THEN [checked EXCEPT !.err = "already exists"]
     ELSE IF failStep = "create" THEN [created EXCEPT !.err = "create user"]
     ELSE IF failStep = "secret"
       THEN [secret EXCEPT !.os = @ \cup {username}, !.err = "save password"]
     ELSE IF failStep = "files"
       THEN [files EXCEPT !.os = @ \cup {username}, !.err = "per-user files"]
     ELSE IF failStep = "daemons"
       THEN [files EXCEPT !.os = @ \cup {username}, !.dirs = @ \cup {username},
                          !.err = "launch daemons"]
     ELSE [files EXCEPT !.os = @ \cup {username}, !.dirs = @ \cup {username},
                        !.users = Append(@, u)]

StepOf(fail, k) == IF fail.at = k THEN fail.step ELSE "none"

RECURSIVE provisionLoop(_, _, _, _)
\* for i := 1; i <= userCount; i++ { ... }
provisionLoop(i, userCount, acc, fail) ==
  IF i > userCount \/ acc.err # "nil" THEN acc
  ELSE provisionLoop(i + 1, userCount, provisionMember(i, acc, StepOf(fail, i)), fail)

\* ProvisionUsers without the check for members already in the manifest.
ProvisionUsersAnyTime(url, st, userCount, os, ds, file, env) ==
  LET same == [st |-> st, err |-> "nil", os |-> os, dirs |-> ds, ledger |-> file,
               calls |-> <<>>, made |-> <<>>]
  IN IF userCount <= 0 THEN [same EXCEPT !.err = "userCount must be positive"]
     ELSE IF ~env.archive THEN [same EXCEPT !.err = "service archive"]
     ELSE
       LET acc == provisionLoop(1, userCount,
                    [users |-> SubSeq(st.users, 1, 0), os |-> os, dirs |-> ds, err |-> "nil",
                     calls |-> <<>>],
                    env.fail)
       IN IF acc.err # "nil"
            THEN [same EXCEPT !.err = acc.err, !.os = acc.os, !.dirs = acc.dirs,
                              !.calls = acc.calls, !.made = acc.users]
          ELSE [st     |-> [initialized |-> TRUE, users |-> acc.users],
                err    |-> "nil",
                os     |-> acc.os,
                dirs   |-> acc.dirs,
                ledger |-> RecordInitialVersion(url, file, env.resps, env.ledgerWrite),
                calls  |-> acc.calls,
                made   |-> acc.users]

\* ProvisionUsers: (state, err) and the OS layer after the call. env holds
\* the outcomes of the external calls: archive, fail, resps, ledgerWrite.
ProvisionUsers(url, st, userCount, os, ds, file, env) ==
  LET same == [st |-> st, err |-> "nil", os |-> os, dirs |-> ds, ledger |-> file,
               calls |-> <<>>, made |-> <<>>]
  IN IF userCount <= 0 THEN [same EXCEPT !.err = "userCount must be positive"]
     ELSE IF Len(st.users) > 0 THEN [same EXCEPT !.err = "users already provisioned"]
     ELSE IF ~env.archive THEN [same EXCEPT !.err = "service archive"]
     ELSE
       LET acc == provisionLoop(1, userCount,
                    [users |-> SubSeq(st.users, 1, 0), os |-> os, dirs |-> ds, err |-> "nil",
                     calls |-> <<>>],
                    env.fail)
       IN IF acc.err # "nil"
            THEN [same EXCEPT !.err = acc.err, !.os = acc.os, !.dirs = acc.dirs,
                              !.calls = acc.calls, !.made = acc.users]
          ELSE [st     |-> [initialized |-> TRUE, users |-> acc.users],
                err    |-> "nil",
                os     |-> acc.os,
                dirs   |-> acc.dirs,
                ledger |-> RecordInitialVersion(url, file, env.resps, env.ledgerWrite),
                calls  |-> acc.calls,
                made   |-> acc.users]

\* maxIndex of AddUsers: the highest positive numeric suffix among the names
\* carrying the machine-id prefix.
RECURSIVE maxIndexFrom(_, _)
maxIndexFrom(users, maxIndex) ==
  IF users = <<>> THEN maxIndex
  ELSE
    LET name   == Head(users).name
        prefix == MachineID \o <<"-">>
        a      == Atoi(TrimPrefix(name, prefix))
    IN IF ~HasPrefix(name, prefix) \/ ~a.ok \/ a.val <= 0
         THEN maxIndexFrom(Tail(users), maxIndex)
       ELSE maxIndexFrom(Tail(users), IF a.val > maxIndex THEN a.val ELSE maxIndex)

\* startIndex taken from the number of members.
startIndexFromCount(users) == Len(users) + 1

\* startIndex := maxIndex + 1
startIndex(users) == maxIndexFrom(users, 0) + 1

RECURSIVE addLoop(_, _, _, _, _)
\* for i := 0; i < userCount; i++ { idx := startIndex + i ... }
addLoop(i, userCount, start, acc, fail) ==
  IF i >= userCount \/ acc.err # "nil" THEN acc
  ELSE addLoop(i + 1, userCount, start,
               provisionMember(start + i, acc, StepOf(fail, i + 1)), fail)

\* Variant: AddUsers without the check for an empty manifest.
AddUsersAnyTime(st, userCount, os, ds, env) ==
  LET same == [st |-> st, err |-> "nil", os |-> os, dirs |-> ds, calls |-> <<>>,
               made |-> <<>>]
  IN IF userCount <= 0 THEN [same EXCEPT !.err = "userCount must be positive"]
     ELSE IF ~env.archive THEN [same EXCEPT !.err = "service archive"]
     ELSE
       LET acc == addLoop(0, userCount, startIndex(st.users),
                    [users |-> st.users, os |-> os, dirs |-> ds, err |-> "nil",
                     calls |-> <<>>], env.fail)
       IN IF acc.err # "nil"
            THEN [same EXCEPT !.err = acc.err, !.os = acc.os, !.dirs = acc.dirs,
                              !.calls = acc.calls, !.made = acc.users]
          ELSE [st    |-> [initialized |-> TRUE, users |-> acc.users],
                err   |-> "nil",
                os    |-> acc.os,
                dirs  |-> acc.dirs,
                calls |-> acc.calls,
                made  |-> acc.users]

\* AddUsers: (state, err) and the OS layer after the call.
AddUsers(st, userCount, os, ds, env) ==
  LET same == [st |-> st, err |-> "nil", os |-> os, dirs |-> ds, calls |-> <<>>,
               made |-> <<>>]
  IN IF userCount <= 0 THEN [same EXCEPT !.err = "userCount must be positive"]
     ELSE IF Len(st.users) = 0 THEN [same EXCEPT !.err = "no existing users"]
     ELSE IF ~env.archive THEN [same EXCEPT !.err = "service archive"]
     ELSE
       LET acc == addLoop(0, userCount, startIndex(st.users),
                    [users |-> st.users, os |-> os, dirs |-> ds, err |-> "nil",
                     calls |-> <<>>], env.fail)
       IN IF acc.err # "nil"
            THEN [same EXCEPT !.err = acc.err, !.os = acc.os, !.dirs = acc.dirs,
                              !.calls = acc.calls, !.made = acc.users]
          ELSE [st    |-> [initialized |-> TRUE, users |-> acc.users],
                err   |-> "nil",
                os    |-> acc.os,
                dirs  |-> acc.dirs,
                calls |-> acc.calls,
                made  |-> acc.users]

\* ------------------------------------------------------- Removal Engine
\* Removal by moving the last member into the freed position.
RemoveAtSwapLast(users, idx) ==
  IF idx = Len(users) THEN SubSeq(users, 1, idx - 1)
  ELSE [k \in 1..(Len(users) - 1) |-> IF k = idx THEN users[Len(users)] ELSE users[k]]

\* The users without the one at position idx.
RemoveAt(users, idx) == SubSeq(users, 1, idx - 1) \o SubSeq(users, idx + 1, Len(users))

\* Position of username in users, 0 when it is no member.
IndexOfUser(users, username) ==
  IF \E k \in 1..Len(users) : users[k].name = username
    THEN CHOOSE k \in 1..Len(users) :
           users[k].name = username /\ \A j \in 1..(k - 1) : users[j].name # username
    ELSE 0

\* Variant: the daemons are booted out and their descriptor files kept.
RemoveUserLaunchDaemonsKeepingFiles(username) ==
  <<Call("bootout server", username), Call("bootout frpc", username)>>

\* RemoveUserLaunchDaemons: both daemons are booted out of the system domain,
\* then both descriptor files are deleted; every error is ignored.
RemoveUserLaunchDaemons(username) ==
  <<Call("bootout server", username), Call("bootout frpc", username),
    Call("remove server plist", username), Call("remove frpc plist", username)>>

\* RemoveUser as it stood before the launch daemons were unregistered.
RemoveUserKeepingDaemons(st, username, os, ds, deleteOK) ==
  LET same == [st |-> st, err |-> "nil", os |-> os, dirs |-> ds, calls |-> <<>>]
      idx  == IndexOfUser(st.users, username)
      del  == <<Call("deleteUser", username)>>
  IN IF TrimSpace(username) = <<>> THEN [same EXCEPT !.err = "username is empty"]
     ELSE IF ~HasPrefix(username, MachineID \o <<"-">>)
       THEN [same EXCEPT !.err = "wrong machine_id"]
     ELSE IF idx = 0 THEN [same EXCEPT !.err = "not found"]
     ELSE IF ~deleteOK THEN [same EXCEPT !.err = "delete user", !.calls = del]
     ELSE [st    |-> [initialized |-> TRUE, users |-> RemoveAt(st.users, idx)],
           err   |-> "nil",
           os    |-> os \ {username},
           dirs  |-> ds \ {username},
           calls |-> del \o <<Call("RemoveAll home", username)>>]

\* RemoveUser without the membership lookup.
RemoveUserUnchecked(st, username, os, ds, deleteOK) ==
  LET calls == RemoveUserLaunchDaemons(username) \o <<Call("deleteUser", username)>>
  IN IF ~deleteOK
       THEN [st |-> st, err |-> "delete user", os |-> os, dirs |-> ds, calls |-> calls]
     ELSE [st    |-> [initialized |-> TRUE,
                      users |-> SelectSeq(st.users, LAMBDA u : u.name # username)],
           err   |-> "nil",
           os    |-> os \ {username},
           dirs  |-> ds \ {username},
           calls |-> calls \o <<Call("RemoveAll home", username)>>]

\* RemoveUser: (state, err), the OS layer after the call and the calls made
\* to it, in order; deleteOK is the outcome of sysadminctl -deleteUser.
RemoveUser(st, username, os, ds, deleteOK) ==
  LET same  == [st |-> st, err |-> "nil", os |-> os, dirs |-> ds, calls |-> <<>>]
      idx   == IndexOfUser(st.users, username)
      calls == RemoveUserLaunchDaemons(username) \o <<Call("deleteUser", username)>>
  IN IF TrimSpace(username) = <<>> THEN [same EXCEPT !.err = "username is empty"]
     ELSE IF ~HasPrefix(username, MachineID \o <<"-">>)
       THEN [same EXCEPT !.err = "wrong machine_id"]
     ELSE IF idx = 0 THEN [same EXCEPT !.err = "not found"]
     ELSE IF ~deleteOK THEN [same EXCEPT !.err = "delete user", !.calls = calls]
     ELSE [st    |-> [initialized |-> TRUE, users |-> RemoveAt(st.users, idx)],
           err   |-> "nil",
           os    |-> os \ {username},
           dirs  |-> ds \ {username},
           calls |-> calls \o <<Call("RemoveAll home", username)>>]

\* --------------------------------------------------- Health Prober
\* Variant: the connect is skipped for a member whose directory check failed.
probeMemberShortCircuit(u, path, connects) ==
  LET dirOK  == path = "dir"
      dialed == dirOK /\ u.port > 0
  IN [status |-> [name          |-> u.name,
                  Port          |-> u.port,
                  ServiceDirOK  |-> dirOK,
                  PortListening |-> dialed /\ connects,
                  Detail        |-> (IF dirOK THEN <<>>
                                     ELSE IF path = "missing"
                                       THEN <<"service dir missing or unreadable">>
                                     ELSE <<"service dir is not a directory">>)
                                    \o (IF dialed /\ ~connects THEN <<"no listener">> ELSE <<>>)],
      dialed |-> dialed]

\* The body of the loop of CheckUserServices for member u. path is what
\* os.Stat finds at the service directory ("dir", "file", "missing"),
\* connects the outcome of the TCP connect to 127.0.0.1:port if one is made.
\* dialed: the connect was attempted.
probeMember(u, path, connects) ==
  LET dirOK  == path = "dir"
      dialed == u.port > 0
  IN [status |-> [name          |-> u.name,
                  Port          |-> u.port,
                  ServiceDirOK  |-> dirOK,
                  PortListening |-> dialed /\ connects,
                  Detail        |-> (IF dirOK THEN <<>>
                                     ELSE IF path = "missing"
                                       THEN <<"service dir missing or unreadable">>
                                     ELSE <<"service dir is not a directory">>)
                                    \o (IF dialed /\ ~connects THEN <<"no listener">> ELSE <<>>)],
      dialed |-> dialed]

\* CheckUserServices: (statuses, err), one status per member in manifest
\* order, and for each member whether its port was dialed.
CheckUserServicesOn(users, paths, connects) ==
  [statuses |-> [k \in 1..Len(users) |-> probeMember(users[k], paths[k], connects[k]).status],
   err      |-> "nil",
   dialed   |-> [k \in 1..Len(users) |-> probeMember(users[k], paths[k], connects[k]).dialed]]

\* CheckUserServices where ds are the names whose service directory exists
\* and listening[k] is the outcome of the connect to the port of member k.
CheckUserServices(users, ds, listening) ==
  CheckUserServicesOn(users,
                      [k \in 1..Len(users) |-> IF users[k].name \in ds THEN "dir" ELSE "missing"],
                      listening).statuses

\* ------------------------------------------------- Daemon restart
Daemons == {"frpc", "server"}

\* restartUserLaunchAgents: plists are the member's descriptor files found in
\* ~/Library/LaunchAgents, failing the daemons whose kickstart fails.
\* Returns the error and the daemons a kickstart was issued to.
restartUserLaunchAgents(known, plists, failing) ==
  IF ~known THEN [err |-> "lookup user", kicks |-> {}]
  ELSE IF "frpc" \in plists /\ "frpc" \in failing
    THEN [err |-> "kickstart frpc", kicks |-> {"frpc"}]
  ELSE IF "server" \in plists /\ "server" \in failing
    THEN [err |-> "kickstart server", kicks |-> plists]
  ELSE [err |-> "nil", kicks |-> plists]

\* launchctl kickstart -k system/<label of daemon d>
KickFn(d) == IF d = "frpc" THEN "kickstart frpc" ELSE "kickstart server"

\* RestartUserDaemons: a forced restart of the frpc daemon, then of the server
\* daemon of a member; failing are the daemons whose kickstart fails. kicks
\* are the signals issued, in order, errs the daemons named in the error.
RestartUserDaemons(failing) ==
  LET frpc   == IF "frpc" \in failing THEN <<"frpc">> ELSE <<>>
      server == IF "server" \in failing THEN <<"server">> ELSE <<>>
      errs   == frpc \o server
  IN [err   |-> IF Len(errs) > 0 THEN "restart failed" ELSE "nil",
      errs  |-> errs,
      kicks |-> <<"frpc", "server">>]

\* ----------------------------------------------------- manual update
\* The member loop of UpdateUserCode from member k on. acc = [err, calls];
\* env.fail names the member and the step (sync, chown) the OS layer fails,
\* env.failing the daemons whose kickstart fails.
RECURSIVE updateLoop(_, _, _, _, _, _)
updateLoop(k, users, statuses, ds, env, acc) ==
  IF k > Len(users) \/ acc.err # "nil" THEN acc
  ELSE
    LET name    == users[k].name
        synced  == [acc EXCEPT !.calls = Append(@, Call("syncServiceDir", name))]
        chowned == [synced EXCEPT !.calls = Append(@, Call("chownRecursive", name))]
        r       == RestartUserDaemons(env.failing)
        kicked  == [chowned EXCEPT !.calls = @ \o [j \in 1..Len(r.kicks) |->
                                                     Call(KickFn(r.kicks[j]), name)]]
        next    ==
          IF name \notin ds THEN [acc EXCEPT !.err = "service directory does not exist"]
          ELSE IF StepOf(env.fail, k) = "sync" THEN [synced EXCEPT !.err = "sync service directory"]
          ELSE IF StepOf(env.fail, k) = "chown" THEN [chowned EXCEPT !.err = "chown service directory"]
          ELSE IF statuses[k].ServiceDirOK /\ statuses[k].PortListening
            THEN IF r.err # "nil" THEN [kicked EXCEPT !.err = "restart services"]
                 ELSE kicked
          ELSE chowned
    IN updateLoop(k + 1, users, statuses, ds, env, next)

\* UpdateUserCode: (state, err) and the calls made to the OS layer. env holds
\* the outcomes of the external calls: archive, fail, failing.
UpdateUserCode(st, os, ds, listening, env) ==
  LET same == [st |-> st, err |-> "nil", os |-> os, dirs |-> ds, calls |-> <<>>,
               made |-> <<>>]
  IN IF Len(st.users) = 0 THEN [same EXCEPT !.err = "no existing users in state"]
     ELSE IF ~env.archive THEN [same EXCEPT !.err = "refresh service archive"]
     ELSE
       LET acc == updateLoop(1, st.users, CheckUserServices(st.users, ds, listening), ds, env,
                             [err |-> "nil", calls |-> <<>>])
       IN IF acc.err # "nil" THEN [same EXCEPT !.err = acc.err, !.calls = acc.calls]
          ELSE [same EXCEPT !.st.initialized = TRUE, !.calls = acc.calls]

\* ---------------------------------------------- Update Orchestrator
NoCycle == [users |-> <<>>, url |-> <<>>, latestTag |-> <<>>, statuses |-> <<>>,
            i |-> 0, updatedCount |-> 0]

\* result: "none" before the first cycle, "running", then what checkAndUpdate
\* returned. fetched: the resolver was called. downloads, synced, kicks,
\* skipped: bundle downloads, member syncs, kickstart signals and skipped
\* members of the cycle. okAfterSkip: a member was counted as updated after an
\* earlier one had been skipped. wrote: the cycle wrote the ledger.
\* disturbed: an interactive call ran during the cycle. touched: the members
\* of the snapshot (by position) whose directory the cycle wrote to. done:
\* those whose loop iteration has ended. unrestarted: those that were synced
\* and whose restart failed. afterManual: the last interactive call before
\* the cycle was a manual update that returned nil.
NoHistory == [result |-> "none", tag |-> <<>>, fetched |-> FALSE, downloads |-> 0,
              synced |-> 0, kicks |-> 0, skipped |-> 0, okAfterSkip |-> FALSE,
              wrote |-> FALSE, disturbed |-> FALSE, touched |-> {}, done |-> {},
              unrestarted |-> {}, afterManual |-> FALSE]

\* The cycle before the current one: the tag the resolver returned (empty:
\* none), whether checkAndUpdate returned nil, and the members it synced
\* whose restart failed. manual: a manual update ran since that cycle and
\* returned nil ("ok") or an error ("failed").
NoPrev == [tag |-> <<>>, ok |-> FALSE, unrestarted |-> {}, manual |-> "none"]

\* checkAndUpdate returns: the loop goes back to waiting for the next tick.
Return(result, hist) ==
  /\ pc' = "idle"
  /\ h' = [hist EXCEPT !.result = result]

\* Variant: the cycle goes on with an empty member list.
CycleStartAnyFleet ==
  LET st  == Load(manifest)
      url == TrimSpace(archiveURL)
      h0  == [NoHistory EXCEPT !.result = "running", !.afterManual = prev.manual = "ok"]
  IN /\ pc = "idle"
     /\ prev' = IF h.disturbed THEN NoPrev
                ELSE [tag |-> h.tag, ok |-> h.result = "nil", unrestarted |-> h.unrestarted,
                      manual |-> "none"]
     /\ cyc' = [NoCycle EXCEPT !.users = st.users, !.url = url]
     /\ IF url = <<>> THEN Return("archive_url is empty", h0)
        ELSE IF ~HasPrefix(url, GhPrefix) THEN Return("nil", h0)
        ELSE pc' = "fetch" /\ h' = h0
     /\ UNCHANGED <<archiveURL, manifest, ledger, osUsers, dirs, lastOp, highWater, disk, lookup, loop, menu>>

\* checkAndUpdate, up to the latest-tag lookup: load config and state.
StartStep ==
  LET st  == Load(manifest)
      url == TrimSpace(archiveURL)
      h0  == [NoHistory EXCEPT !.result = "running", !.afterManual = prev.manual = "ok"]
  IN /\ pc = "idle"
     /\ prev' = IF h.disturbed THEN NoPrev
                ELSE [tag |-> h.tag, ok |-> h.result = "nil", unrestarted |-> h.unrestarted,
                      manual |-> "none"]
     /\ cyc' = [NoCycle EXCEPT !.users = st.users, !.url = url]
     /\ IF Len(st.users) = 0 THEN Return("nil", h0)
        ELSE IF url = <<>> THEN Return("archive_url is empty", h0)
        ELSE IF ~HasPrefix(url, GhPrefix) THEN Return("nil", h0)
        ELSE pc' = "fetch" /\ h' = h0
     /\ UNCHANGED <<archiveURL, manifest, ledger, osUsers, dirs, lastOp, highWater, disk, lookup, menu>>

\* A cycle starts: the loop calls checkAndUpdate.
CycleStart == StartStep /\ UNCHANGED loop

\* latestTag, err := fetchLatestRelease(ctx, archiveURL); f is what the
\* lookup returns.
FetchStep(f) ==
  LET h1 == [h EXCEPT !.fetched = f.calls > 0, !.tag = f.tag]
  IN /\ pc = "fetch"
     /\ cyc' = [cyc EXCEPT !.latestTag = f.tag]
     /\ IF f.err # "nil" THEN Return("fetch latest release", h1)
        ELSE IF f.tag = <<>> THEN Return("nil", h1)
        ELSE pc' = "ledger" /\ h' = h1
     /\ UNCHANGED <<archiveURL, manifest, ledger, osUsers, dirs, lastOp, highWater, disk, lookup, menu, prev>>

\* The lookup of a cycle whose ctx is not cancelled.
CycleFetch(resps) ==
  /\ FetchStep(fetchLatestRelease(cyc.url, resps, 0))
  /\ UNCHANGED loop

\* currentTag, err := readCurrentVersion(outputDir), and the comparison
CycleReadLedger ==
  LET r == readCurrentVersion(ledger)
  IN /\ pc = "ledger"
     /\ IF r.err = "ErrNotExist" THEN Return("nil", h)
        ELSE IF r.tag = cyc.latestTag THEN Return("nil", h)
        ELSE pc' = "download" /\ h' = h
     /\ UNCHANGED <<archiveURL, manifest, ledger, osUsers, dirs, lastOp, highWater, disk, lookup, loop, menu, cyc, prev>>

\* performUpdate: drop the cached archive, download and extract the bundle
CycleDownload(ok) ==
  LET h1 == [h EXCEPT !.downloads = @ + 1]
  IN /\ pc = "download"
     /\ IF ok THEN pc' = "probe" /\ h' = h1
        ELSE Return("perform update", h1)
     /\ UNCHANGED <<archiveURL, manifest, ledger, osUsers, dirs, lastOp, highWater, disk, lookup, loop, menu, cyc, prev>>

\* performUpdate: statuses, err := CheckUserServices(ctx, cfg, st)
CycleProbe(listening) ==
  /\ pc = "probe"
  /\ cyc' = [cyc EXCEPT !.statuses = CheckUserServices(cyc.users, dirs, listening),
                        !.i = 1]
  /\ pc' = "stat"
  /\ UNCHANGED <<archiveURL, manifest, ledger, osUsers, dirs, lastOp, highWater, disk, lookup, loop, menu, h, prev>>

\* The loop moves on to the next member of the snapshot, or leaves the loop.
NextMember == IF cyc.i + 1 > Len(cyc.users) THEN "finish" ELSE "stat"

\* Variant: `continue` without the range loop moving on to the next member.
SkipSame(why, hist) ==
  /\ cyc' = cyc
  /\ pc' = "stat"
  /\ h' = [hist EXCEPT !.skipped = @ + 1, !.done = @ \cup {cyc.i}]

\* Variant: `break` in place of `continue`.
SkipRest(why, hist) ==
  /\ cyc' = [cyc EXCEPT !.i = @ + 1]
  /\ pc' = "finish"
  /\ h' = [hist EXCEPT !.skipped = @ + 1, !.done = @ \cup {cyc.i}]

\* `continue`: the member is skipped for `why`
Skip(why, hist) ==
  /\ cyc' = [cyc EXCEPT !.i = @ + 1]
  /\ pc' = NextMember
  /\ h' = [hist EXCEPT !.skipped = @ + 1, !.done = @ \cup {cyc.i}]

\* updatedCount++
Count(hist) ==
  /\ cyc' = [cyc EXCEPT !.i = @ + 1, !.updatedCount = @ + 1]
  /\ pc' = NextMember
  /\ h' = [hist EXCEPT !.okAfterSkip = @ \/ hist.skipped > 0, !.done = @ \cup {cyc.i}]

\* Variant: the member loop saves the state it loaded at the start.
MemberStatSavingState ==
  /\ pc = "stat"
  /\ IF cyc.users[cyc.i].name \notin dirs THEN Skip("nodir", h)
     ELSE pc' = "sync" /\ UNCHANGED <<cyc, h>>
  /\ manifest' = Save([initialized |-> TRUE, users |-> cyc.users])
  /\ UNCHANGED <<archiveURL, ledger, osUsers, dirs, lastOp, highWater, disk, lookup, loop, menu, prev>>

\* performUpdate, member loop: os.Stat(serviceDir)
MemberStat ==
  /\ pc = "stat"
  /\ IF cyc.users[cyc.i].name \notin dirs THEN Skip("nodir", h)
     ELSE pc' = "sync" /\ UNCHANGED <<cyc, h>>
  /\ UNCHANGED <<archiveURL, manifest, ledger, osUsers, dirs, lastOp, highWater, disk, lookup, loop, menu, prev>>

\* Variant: the restart does not look at the port.
ShouldRestartAnyPort(status) == status.ServiceDirOK

\* Whether performUpdate restarts the member a status belongs to.
ShouldRestart(status) == status.ServiceDirOK /\ status.PortListening

\* Variant: the bundle is delivered to the current member and all after it.
SyncTargetsRest(i, n) == i..n

\* The members of the snapshot of n whose service directory iteration i of
\* the member loop writes to: serviceDir is that of st.Users[i].
SyncTargets(i, n) == {i}

\* Variant: a member whose restart failed is counted as updated.
MemberSyncCountingUnrestarted(out, plists, failing) ==
  LET u  == cyc.users[cyc.i]
      r  == restartUserLaunchAgents(u.name \in osUsers, plists, failing)
      w  == SyncTargets(cyc.i, Len(cyc.users))
      h1 == [h EXCEPT !.synced = @ + 1, !.touched = @ \cup w]
  IN /\ pc = "sync"
     /\ dirs' = dirs \cup {cyc.users[k].name : k \in w}
     /\ IF out = "sync failed" THEN Skip("sync failed", h1)
        ELSE IF out = "chown failed" THEN Skip("chown failed", h1)
        ELSE IF ShouldRestart(cyc.statuses[cyc.i])
          THEN IF r.err # "nil"
                 THEN Count([h1 EXCEPT !.kicks = @ + Cardinality(r.kicks),
                                       !.unrestarted = @ \cup {cyc.i}])
               ELSE Count([h1 EXCEPT !.kicks = @ + Cardinality(r.kicks)])
        ELSE Count(h1)
     /\ UNCHANGED <<archiveURL, manifest, ledger, osUsers, lastOp, highWater, disk, lookup, loop, menu, prev>>

\* performUpdate, member loop: syncServiceDir, chownRecursive and, for a
\* member reported running, restartUserLaunchAgents. out is the outcome of
\* rsync / chown, plists and failing those of the restart.
MemberSync(out, plists, failing) ==
  LET u  == cyc.users[cyc.i]
      r  == restartUserLaunchAgents(u.name \in osUsers, plists, failing)
      w  == SyncTargets(cyc.i, Len(cyc.users))
      h1 == [h EXCEPT !.synced = @ + 1, !.touched = @ \cup w]
  IN /\ pc = "sync"
     /\ dirs' = dirs \cup {cyc.users[k].name : k \in w}
     /\ IF out = "sync failed" THEN Skip("sync failed", h1)
        ELSE IF out = "chown failed" THEN Skip("chown failed", h1)
        ELSE IF ShouldRestart(cyc.statuses[cyc.i])
          THEN IF r.err # "nil"
                 THEN Skip("restart failed", [h1 EXCEPT !.kicks = @ + Cardinality(r.kicks),
                                                        !.unrestarted = @ \cup {cyc.i}])
               ELSE Count([h1 EXCEPT !.kicks = @ + Cardinality(r.kicks)])
        ELSE Count(h1)
     /\ UNCHANGED <<archiveURL, manifest, ledger, osUsers, lastOp, highWater, disk, lookup, loop, menu, prev>>

\* Variant: the ledger is written whatever updatedCount is.
CycleFinishAnyCount(ok) ==
  /\ pc = "finish"
  /\ IF ~ok
       THEN Return("write current version", h) /\ ledger' = ledger
     ELSE Return("nil", [h EXCEPT !.wrote = TRUE])
            /\ ledger' = writeCurrentVersion(cyc.latestTag)
  /\ UNCHANGED <<archiveURL, manifest, osUsers, dirs, lastOp, highWater, disk, lookup, loop, menu, cyc, prev>>

\* checkAndUpdate after performUpdate: the ledger is written only if
\* updatedCount > 0. ok is the outcome of writeCurrentVersion.
CycleFinish(ok) ==
  /\ pc = "finish"
  /\ IF cyc.updatedCount = 0
       THEN Return("no users were updated", h) /\ ledger' = ledger
     ELSE IF ~ok
       THEN Return("write current version", h) /\ ledger' = ledger
     ELSE Return("nil", [h EXCEPT !.wrote = TRUE])
            /\ ledger' = writeCurrentVersion(cyc.latestTag)
  /\ UNCHANGED <<archiveURL, manifest, osUsers, dirs, lastOp, highWater, disk, lookup, loop, menu, cyc, prev>>

\* ------------------------------------------- Initializer (interactive)
\* The answers of the resolver during a provisioning call: the latest tag at
\* once, or a fatal status.
ProvScripts == {Script(0, RespOK(t)) : t \in Tags} \cup {Script(0, RespStatus(404))}

\* The environments in which every OS step, the download and Save succeed;
\* the resolver's answer and the ledger write are free.
HealthyEnvs == [archive : {TRUE}, fail : {NoFail}, resps : ProvScripts,
                ledgerWrite : BOOLEAN, save : {TRUE}, autoboot : {TRUE}]

HealthyEnv == [archive |-> TRUE, fail |-> NoFail, resps |-> Script(0, RespStatus(404)),
               ledgerWrite |-> TRUE, save |-> TRUE, autoboot |-> TRUE]

\* The environments in which the download or one OS step of a batch of n fails.
FailingEnvs(n) ==
  {[HealthyEnv EXCEPT !.archive = FALSE]}
    \cup {[HealthyEnv EXCEPT !.fail = f] : f \in Fails(n)}

\* Outcomes of the external calls of Initializer.Provision(n): a healthy
\* environment, in which the resolver names no release or names the first one
\* and the ledger write succeeds or fails, or one in which exactly one other
\* call fails (what follows a failed call is never asked for, and a call
\* refused at once asks for nothing).
ProvisionEnvs(n) ==
  IF Load(manifest).users # <<>> THEN {HealthyEnv}
  ELSE {HealthyEnv}
         \cup {[HealthyEnv EXCEPT !.resps = Script(0, RespOK(TagOf(1))), !.ledgerWrite = w] :
                 w \in BOOLEAN}
         \cup FailingEnvs(n)
         \cup {[HealthyEnv EXCEPT !.save = FALSE], [HealthyEnv EXCEPT !.autoboot = FALSE]}

\* Outcomes of the external calls of Initializer.UpdateUserCode(): a healthy
\* environment, or one in which the download, one step of the first member,
\* a kickstart or Save fails.
UpdateEnvs ==
  LET ok == [archive |-> TRUE, fail |-> NoFail, failing |-> {}, save |-> TRUE]
  IN {ok, [ok EXCEPT !.archive = FALSE], [ok EXCEPT !.save = FALSE]}
       \cup {[ok EXCEPT !.fail = [at |-> 1, step |-> s]] : s \in {"sync", "chown"}}
       \cup {[ok EXCEPT !.failing = f] : f \in (SUBSET Daemons) \ {{}}}

\* Outcomes of the external calls of Initializer.AddUsers(n), which neither
\* asks the resolver nor installs the autoboot daemon.
AddEnvs(n) ==
  IF Load(manifest).users = <<>> THEN {HealthyEnv}
  ELSE {HealthyEnv, [HealthyEnv EXCEPT !.save = FALSE]} \cup FailingEnvs(n)

\* What the caller of the last Initializer call saw: the call, its error,
\* the member list before it and the one it returned. hw is the highest
\* suffix the manifest has held since the last Initial provisioning. ret is
\* the member list of the state the engine returned, made the engine's local
\* member list when it returned, calls the calls it made to the OS layer.
NoOp == [op |-> "none", n |-> 0, name |-> <<>>, err |-> "nil",
         before |-> <<>>, after |-> <<>>, hw |-> 0,
         ret |-> <<>>, made |-> <<>>, calls |-> <<>>]

SuffixOf(name) == Atoi(TrimPrefix(name, MachineID \o <<"-">>)).val

MaxSuffix(users) == maxIndexFrom(users, 0)

\* The error an Initializer call returns: the engine's, else Save's, else
\* that of the step after Save.
OpErr(engineErr, saveOK, afterOK) ==
  IF engineErr # "nil" THEN engineErr
  ELSE IF ~saveOK THEN "save state"
  ELSE IF ~afterOK THEN "autoboot daemon" ELSE "nil"

\* The call is recorded in lastOp, and highWater follows the saved manifest.
Observed(op, n, name, r, err) ==
  /\ lastOp' = [op |-> op, n |-> n, name |-> name, err |-> err,
                before |-> Load(manifest).users,
                after |-> IF r.err = "nil" THEN r.st.users ELSE <<>>,
                hw |-> highWater,
                ret |-> r.st.users,
                made |-> IF op = "remove" THEN <<>> ELSE r.made,
                calls |-> r.calls]
  /\ highWater' = IF manifest' = manifest THEN highWater
                  ELSE IF op = "provision" \/ MaxSuffix(manifest'.st.users) > highWater
                    THEN MaxSuffix(manifest'.st.users)
                  ELSE highWater

Unobserved == UNCHANGED <<lastOp, highWater>>

provisionUsers(n, env) ==
  ProvisionUsers(archiveURL, Load(manifest), n, osUsers, dirs, ledger, env)

addUsers(n, env) == AddUsers(Load(manifest), n, osUsers, dirs, env)

removeUser(username, deleteOK) ==
  RemoveUser(Load(manifest), username, osUsers, dirs, deleteOK)

\* Initializer.Provision(userCount) once ProvisionUsers has returned r: Save
\* on success, then the autoboot daemon.
Provisioned(r, env) ==
  /\ osUsers' = r.os
  /\ dirs' = r.dirs
  /\ ledger' = r.ledger
  /\ manifest' = IF r.err = "nil" /\ env.save THEN Save(r.st) ELSE manifest
  /\ UNCHANGED <<archiveURL, disk, lookup, loop, menu>>

\* Initializer.Provision(userCount): load, ProvisionUsers, Save, autoboot daemon
Provision(n, env) == \E r \in {provisionUsers(n, env)} : Provisioned(r, env)

\* Initializer.AddUsers / RemoveUser once the engine has returned r: Save on
\* success.
Saved(r, saveOK) ==
  /\ osUsers' = r.os
  /\ dirs' = r.dirs
  /\ manifest' = IF r.err = "nil" /\ saveOK THEN Save(r.st) ELSE manifest
  /\ UNCHANGED <<archiveURL, ledger, disk, lookup, loop, menu>>

\* Variant: AddUsers records the initial version as ProvisionUsers does.
AddRecordingVersion(n, env) ==
  \E r \in {addUsers(n, env)} :
    /\ osUsers' = r.os
    /\ dirs' = r.dirs
    /\ manifest' = IF r.err = "nil" /\ env.save THEN Save(r.st) ELSE manifest
    /\ ledger' = IF r.err = "nil"
                   THEN RecordInitialVersion(archiveURL, ledger, env.resps, env.ledgerWrite)
                 ELSE ledger
    /\ UNCHANGED <<archiveURL, disk, lookup, loop, menu>>

\* Initializer.AddUsers(userCount): load, AddUsers, Save
Add(n, env) == \E r \in {addUsers(n, env)} : Saved(r, env.save)

\* Initializer.RemoveUser(username): load, RemoveUser, Save
Remove(username, deleteOK, saveOK) ==
  \E r \in {removeUser(username, deleteOK)} : Saved(r, saveOK)

updateUserCode(listening, env) ==
  UpdateUserCode(Load(manifest), osUsers, dirs, listening, env)

\* Variant: the manual update records the version it installed.
UpdateRecordingVersion(listening, env) ==
  \E r \in {updateUserCode(listening, env)} :
    /\ manifest' = IF r.err = "nil" /\ env.save THEN Save(r.st) ELSE manifest
    /\ ledger' = IF r.err = "nil" THEN writeCurrentVersion(TagOf(MaxTag)) ELSE ledger
    /\ UNCHANGED <<archiveURL, osUsers, dirs, disk, lookup, loop, menu>>

\* Initializer.UpdateUserCode(): load, UpdateUserCode, Save
Update(listening, env) ==
  \E r \in {updateUserCode(listening, env)} :
    /\ manifest' = IF r.err = "nil" /\ env.save THEN Save(r.st) ELSE manifest
    /\ UNCHANGED <<archiveURL, ledger, osUsers, dirs, disk, lookup, loop, menu>>

\* The operator rewrites archive_url in the configuration file.
EditConfig(url) ==
  /\ url # archiveURL
  /\ archiveURL' = url
  /\ UNCHANGED <<manifest, ledger, osUsers, dirs, disk, lookup, loop, menu>>

\* The update loop is between two cycles while an interactive call runs; the
\* record of the finished cycle is dropped.
LoopIdle ==
  /\ pc = "idle"
  /\ pc' = pc
  /\ cyc' = NoCycle
  /\ h' = NoHistory
  /\ prev' = NoPrev

\* The update loop is between two cycles while a manual update runs.
LoopIdleUpdating(updated) ==
  /\ pc = "idle"
  /\ pc' = pc
  /\ cyc' = NoCycle
  /\ h' = NoHistory
  /\ prev' = [NoPrev EXCEPT !.manual = IF updated THEN "ok" ELSE "failed"]

\* An interactive call runs while a cycle is under way, one per cycle. The
\* cycle reads the member directories and identities from the probe to the
\* last member only, so a call during an earlier step has the effect of one
\* before the probe.
LoopDisturbed ==
  /\ pc \in {"probe", "stat", "sync"}
  /\ ~h.disturbed
  /\ h' = [h EXCEPT !.disturbed = TRUE]
  /\ UNCHANGED <<pc, cyc, prev>>

\* ------------------------------------------- the stores, byte by byte
StatePath == <<"state.json">>

VersionFile == <<"cache", "current_version.txt">>

\* Variant: Save writes the state file in place.
tmpPathInPlace(path) == path

\* tmpPath := path + ".tmp"
tmpPath(path) == path \o <<".tmp">>

StorePaths == {StatePath, tmpPath(StatePath), VersionFile}

\* json.MarshalIndent of a State, reduced to one bracketed group per member.
RECURSIVE MarshalUsers(_)
MarshalUsers(users) ==
  IF users = <<>> THEN <<>>
  ELSE <<"[">> \o Head(users).name \o <<":">> \o Itoa(Head(users).port) \o <<"]">>
         \o MarshalUsers(Tail(users))

MarshalIndent(st) ==
  <<"{">> \o (IF st.initialized THEN <<"T">> ELSE <<"F">>) \o MarshalUsers(st.users) \o <<"}">>

RECURSIVE UnmarshalUsers(_)
UnmarshalUsers(s) ==
  IF s = <<>> THEN [ok |-> TRUE, users |-> <<>>]
  ELSE
    LET colon == Index(s, ":")
        close == Index(s, "]")
    IN IF Head(s) # "[" \/ colon = 0 \/ close = 0 \/ colon > close
         THEN [ok |-> FALSE, users |-> <<>>]
       ELSE
         LET port == Atoi(SubSeq(s, colon + 1, close - 1))
             rest == UnmarshalUsers(SubSeq(s, close + 1, Len(s)))
         IN IF ~port.ok \/ ~rest.ok THEN [ok |-> FALSE, users |-> <<>>]
            ELSE [ok |-> TRUE,
                  users |-> <<User(SubSeq(s, 2, colon - 1), port.val)>> \o rest.users]

\* json.Unmarshal into a State: (ok, state).
Unmarshal(data) ==
  IF Len(data) < 3 \/ data[1] # "{" \/ data[Len(data)] # "}" \/ data[2] \notin {"T", "F"}
    THEN [ok |-> FALSE, st |-> EmptyState]
  ELSE LET us == UnmarshalUsers(SubSeq(data, 3, Len(data) - 1))
       IN IF ~us.ok THEN [ok |-> FALSE, st |-> EmptyState]
          ELSE [ok |-> TRUE, st |-> [initialized |-> data[2] = "T", users |-> us.users]]

\* state.Load on the bytes of the state file: (state, err). A missing file
\* and an empty one are the zero State.
LoadFile(file) ==
  IF ~file.exists THEN [st |-> EmptyState, err |-> "nil"]
  ELSE IF Len(file.data) = 0 THEN [st |-> EmptyState, err |-> "nil"]
  ELSE LET s == Unmarshal(file.data)
       IN IF ~s.ok THEN [st |-> EmptyState, err |-> "decode state"]
          ELSE [st |-> s.st, err |-> "nil"]

\* job: the latest write ("save": state.Save, "ledger": writeCurrentVersion),
\* busy while it runs, crashed when the process died in it. path and data:
\* the file os.WriteFile is writing and the bytes it was given; open: the
\* file has been created or truncated. oldState, newState, oldLedger, newTag:
\* the state file and the ledger before the latest write to them and what
\* was to be written (history).
NoDisk == [files |-> [p \in StorePaths |-> NoFile],
           job |-> "none", busy |-> FALSE, crashed |-> FALSE,
           path |-> <<>>, data |-> <<>>, open |-> FALSE,
           oldState |-> NoFile, newState |-> EmptyState,
           oldLedger |-> NoFile, newTag |-> <<>>]

\* One call of fetchLatestRelease: the locator, the exchanges the remote
\* will answer with, the wait during which ctx is cancelled (0: never), and
\* once the call is done what it returned.
NoOut == [tag |-> <<>>, err |-> "nil", calls |-> 0, waits |-> <<>>]

NoLookup == [done |-> FALSE, url |-> <<>>, resps |-> <<>>, cancelAt |-> 0, out |-> NoOut]

\* ------------------------------------------------------ interactive menu
\* The root Model of the menu, without the fields that are only displayed
\* (status, initResult, initErr, provisionErr, servicesErr, services).
\* provisionResult: set = FALSE is the nil pointer, users the member list of
\* the result.
New == [cursor |-> 0, initRunning |-> FALSE, awaitUserCount |-> FALSE,
        userCountInput |-> <<>>, provisionRunning |-> FALSE,
        provisionResult |-> [set |-> FALSE, users |-> <<>>],
        provisionKind |-> "None", awaitRemoveSelection |-> FALSE, removeIndex |-> 0,
        lastRemovedUser |-> <<>>, servicesRunning |-> FALSE]

\* The commands a key can dispatch, by the run...Cmd function that builds them.
CmdKinds == {"runInitCmd", "runProvisionCmd", "runAddUsersCmd", "runViewUsersCmd",
             "runUpdateUsersCodeCmd", "runServicesCmd", "runRemoveUserCmd"}

\* The commands that call a mutating operation of the Initializer: Provision,
\* AddUsers, UpdateUserCode, RemoveUser.
Mutating == {"runProvisionCmd", "runAddUsersCmd", "runUpdateUsersCodeCmd", "runRemoveUserCmd"}

NoCmd == [kind |-> "nil", n |-> 0, name |-> <<>>]

Quit == [kind |-> "tea.Quit", n |-> 0, name |-> <<>>]

Cmd(kind, n, name) == [kind |-> kind, n |-> n, name |-> name]

\* The main menu: the last switch of updateForKeyMsg.
mainMenuKey(m, key) ==
  IF key = "q" THEN [m |-> m, cmd |-> Quit]
  ELSE IF key = "up"
    THEN [m |-> [m EXCEPT !.cursor = IF @ > 0 THEN @ - 1 ELSE @], cmd |-> NoCmd]
  ELSE IF key = "down"
    THEN [m |-> [m EXCEPT !.cursor = IF @ < 6 THEN @ + 1 ELSE @], cmd |-> NoCmd]
  ELSE IF key \in {"enter", " "}
    THEN CASE m.cursor = 0 ->
                [m   |-> [m EXCEPT !.initRunning = TRUE, !.provisionKind = "Initial"],
                 cmd |-> Cmd("runInitCmd", 0, <<>>)]
           [] m.cursor = 1 ->
                [m   |-> [m EXCEPT !.awaitUserCount = TRUE, !.userCountInput = <<>>,
                                   !.provisionKind = "Add"],
                 cmd |-> NoCmd]
           [] m.cursor = 2 ->
                [m   |-> [m EXCEPT !.provisionKind = "View"],
                 cmd |-> Cmd("runViewUsersCmd", 0, <<>>)]
           [] m.cursor = 3 ->
                [m   |-> [m EXCEPT !.provisionKind = "Update", !.provisionRunning = TRUE,
                                   !.provisionResult = New.provisionResult],
                 cmd |-> Cmd("runUpdateUsersCodeCmd", 0, <<>>)]
           [] m.cursor = 4 ->
                [m   |-> [m EXCEPT !.servicesRunning = TRUE],
                 cmd |-> Cmd("runServicesCmd", 0, <<>>)]
           [] m.cursor = 5 ->
                [m   |-> [m EXCEPT !.provisionKind = "Remove",
                                   !.provisionResult = New.provisionResult,
                                   !.provisionRunning = TRUE, !.awaitRemoveSelection = FALSE,
                                   !.lastRemovedUser = <<>>],
                 cmd |-> Cmd("runViewUsersCmd", 0, <<>>)]
           [] OTHER -> [m |-> m, cmd |-> Quit]
  ELSE [m |-> m, cmd |-> NoCmd]

\* The selection of the member to remove: the third block of updateForKeyMsg.
removeSelectionKey(m, key) ==
  LET users == m.provisionResult.users
  IN IF ~(m.provisionKind = "Remove" /\ m.provisionResult.set /\ m.awaitRemoveSelection)
       THEN mainMenuKey(m, key)
     ELSE IF key = "q"
       THEN [m   |-> [m EXCEPT !.awaitRemoveSelection = FALSE, !.provisionKind = "None"],
             cmd |-> NoCmd]
     ELSE IF key = "up"
       THEN [m |-> [m EXCEPT !.removeIndex = IF @ > 0 THEN @ - 1 ELSE @], cmd |-> NoCmd]
     ELSE IF key = "down"
       THEN [m   |-> [m EXCEPT !.removeIndex = IF @ < Len(users) - 1 THEN @ + 1 ELSE @],
             cmd |-> NoCmd]
     ELSE IF key \in {"enter", " "}
       THEN IF Len(users) = 0
              THEN [m |-> [m EXCEPT !.awaitRemoveSelection = FALSE], cmd |-> NoCmd]
            ELSE IF m.removeIndex < 0 \/ m.removeIndex >= Len(users)
              THEN [m |-> m, cmd |-> NoCmd]
            ELSE [m   |-> [m EXCEPT !.awaitRemoveSelection = FALSE,
                                    !.provisionRunning = TRUE,
                                    !.lastRemovedUser = users[m.removeIndex + 1].name],
                  cmd |-> Cmd("runRemoveUserCmd", 0, users[m.removeIndex + 1].name)]
     ELSE mainMenuKey(m, key)

\* Model.updateForKeyMsg: the model and the command it returns for a key.
updateForKeyMsg(m, key) ==
  IF m.initRunning \/ m.provisionRunning \/ m.servicesRunning
    THEN [m |-> m, cmd |-> IF key = "q" THEN Quit ELSE NoCmd]
  ELSE IF ~m.awaitUserCount THEN removeSelectionKey(m, key)
  ELSE IF key = "q" THEN [m |-> m, cmd |-> Quit]
  ELSE IF key = "enter"
    THEN LET input == TrimSpace(m.userCountInput)
             n     == Atoi(input)
         IN IF input = <<>> THEN [m |-> m, cmd |-> NoCmd]
            ELSE IF ~n.ok \/ n.val <= 0 THEN [m |-> m, cmd |-> NoCmd]
            ELSE [m   |-> [m EXCEPT !.awaitUserCount = FALSE, !.provisionRunning = TRUE,
                                    !.provisionResult = New.provisionResult],
                  cmd |-> IF m.provisionKind = "Add" THEN Cmd("runAddUsersCmd", n.val, <<>>)
                          ELSE Cmd("runProvisionCmd", n.val, <<>>)]
  ELSE IF key = "backspace"
    THEN [m   |-> [m EXCEPT !.userCountInput =
                               IF Len(@) > 0 THEN SubSeq(@, 1, Len(@) - 1) ELSE @],
          cmd |-> NoCmd]
  ELSE IF IsDigit(key)
    THEN [m |-> [m EXCEPT !.userCountInput = Append(@, key)], cmd |-> NoCmd]
  ELSE removeSelectionKey(m, key)

\* Model.updateForInitDoneMsg; msg = [err, AlreadyInitialized]
updateForInitDoneMsg(m, msg) ==
  LET m1 == [m EXCEPT !.initRunning = FALSE]
  IN IF msg.err THEN [m1 EXCEPT !.awaitUserCount = FALSE]
     ELSE IF msg.AlreadyInitialized THEN m1
     ELSE [m1 EXCEPT !.awaitUserCount = TRUE, !.userCountInput = <<>>,
                     !.provisionKind = "Initial"]

\* Model.updateForProvisionDoneMsg; msg = [err, users]: the error and the
\* member list of the result.
updateForProvisionDoneMsg(m, msg) ==
  LET n  == Len(msg.users)
      m1 == [m EXCEPT !.provisionRunning = FALSE,
                      !.provisionResult = [set |-> TRUE, users |-> msg.users]]
  IN IF msg.err \/ n = 0 \/ m.provisionKind # "Remove" THEN m1
     ELSE IF m.lastRemovedUser = <<>>
       THEN [m1 EXCEPT !.awaitRemoveSelection = TRUE,
                       !.removeIndex = IF @ >= n THEN n - 1 ELSE @]
     ELSE [m1 EXCEPT !.awaitRemoveSelection = FALSE]

\* Model.updateForServicesDoneMsg
updateForServicesDoneMsg(m) == [m EXCEPT !.servicesRunning = FALSE]

\* The menu before the first key: no command in flight.
NoMenu == [m |-> New, cmds |-> [k \in CmdKinds |-> 0], quit |-> FALSE]

\* ------------------------------------------------------ the update loop
\* Durations, in seconds.
Minute == 60

Hour == 3600

\* RunAutoUpdateLoop. CheckInterval: the configured interval; interval: the
\* one the ticker is built with; phase: "boot" before the first cycle,
\* "cycle" in checkAndUpdate, "select" at the select, "returned"; ticker: the
\* ticker exists; tick: its channel holds a tick; wake: the case that has
\* woken the goroutine parked in the select; fired, taken, cycles: the ticks
\* the ticker has sent, those the select has received, the calls of
\* checkAndUpdate (history); cancelled: ctx is done; fetch, cancelAt: what the
\* last lookup returned and the wait in which ctx was cancelled (history).
NoLoop == [CheckInterval |-> 0, interval |-> 0, phase |-> "boot", ticker |-> FALSE,
           tick |-> FALSE, wake |-> "none", fired |-> 0, taken |-> 0, cycles |-> 0,
           cancelled |-> FALSE, fetch |-> NoOut, cancelAt |-> 0]

\* Variant: the configured interval is used as it is.
effectiveIntervalAsConfigured(CheckInterval) == CheckInterval

\* interval := auCfg.CheckInterval; if interval < time.Minute { interval = time.Hour }
effectiveInterval(CheckInterval) ==
  IF CheckInterval < Minute THEN Hour ELSE CheckInterval

\* ----------------------------------------------------- specifications
Init ==
  /\ archiveURL \in ArchiveURLs
  /\ manifest = [exists |-> FALSE, st |-> EmptyState]
  /\ ledger = NoFile
  /\ osUsers = {}
  /\ dirs = {}
  /\ lastOp = NoOp
  /\ highWater = 0
  /\ pc = "idle"
  /\ cyc = NoCycle
  /\ h = NoHistory
  /\ prev = NoPrev
  /\ disk = NoDisk
  /\ loop = NoLoop
  /\ menu = NoMenu
  /\ lookup = NoLookup

AllNames == {UserName(k) : k \in 1..MaxIdx}

\* The batch fits the suffixes the model follows: 1..cap.
Fits(n, cap) == MaxSuffix(Load(manifest).users) + n <= cap

\* The answers the resolver gives a cycle: the tag after at most one retry,
\* a fatal status, or retryable answers until the retries are used up.
CycleScripts ==
  {Script(r, RespOK(t)) : r \in 0..1, t \in Tags}
    \cup {Script(0, RespStatus(404)), Script(maxRetries + 1, RespStatus(500))}

\* The host with its update loop. The interactive calls meet a healthy OS;
\* provisioning and configuration changes happen between two cycles, a
\* removal at any time.
Next ==
  \/ \E n \in 1..MaxBatch :
       \E env \in (IF Load(manifest).users = <<>> THEN HealthyEnvs ELSE {HealthyEnv}) :
         n <= MaxIdx /\ LoopIdle /\ Unobserved /\ Provision(n, env)
  \/ \E n \in 1..MaxBatch :
       Fits(n, MaxIdx) /\ LoopIdle /\ Unobserved /\ Add(n, HealthyEnv)
  \/ \E name \in AllNames :
       (LoopIdle \/ LoopDisturbed) /\ Unobserved /\ Remove(name, TRUE, TRUE)
  \/ \E url \in ArchiveURLs : LoopIdle /\ Unobserved /\ EditConfig(url)
  \/ \E listening \in [1..Len(Load(manifest).users) -> BOOLEAN] : \E env \in UpdateEnvs :
       /\ LoopIdleUpdating(updateUserCode(listening, env).err = "nil" /\ env.save)
       /\ Unobserved
       /\ Update(listening, env)
  \/ CycleStart
  \/ \E resps \in CycleScripts : CycleFetch(resps)
  \/ CycleReadLedger
  \/ \E ok \in BOOLEAN : CycleDownload(ok)
  \/ \E listening \in [1..Len(cyc.users) -> BOOLEAN] : CycleProbe(listening)
  \/ MemberStat
  \/ \E out \in {"sync failed", "chown failed"} : MemberSync(out, {}, {})
  \/ \E plists \in (IF pc = "sync" /\ ShouldRestart(cyc.statuses[cyc.i])
                       THEN SUBSET Daemons ELSE {{}}) :
       \E failing \in SUBSET plists : MemberSync("ok", plists, failing)
  \/ \E ok \in BOOLEAN : CycleFinish(ok)

Spec == Init /\ [][Next]_vars

LoopOff == UNCHANGED <<pc, cyc, h, prev>>

\* The provisioning and removal engines alone, on an OS layer whose steps
\* may fail; every call is recorded.
\* A name that lacks the machine-id prefix.
ForeignName == <<"x", "-", "9">>

\* The names a removal is asked for: every member the model follows and one
\* name of another machine.
RemoveNames == {UserName(k) : k \in 1..MaxProvIdx} \cup {ForeignName}

\* Outcomes of the external calls of Initializer.RemoveUser(name): identity
\* deletion and Save, which are asked for a member only.
RemoveEnvs(name) ==
  IF name \in Names(Load(manifest).users) THEN BOOLEAN \X BOOLEAN ELSE {<<TRUE, TRUE>>}

NextProv ==
  \/ \E n \in 1..MaxBatch : \E env \in ProvisionEnvs(n) :
       \E r \in {provisionUsers(n, env)} :
         /\ n <= MaxProvIdx
         /\ LoopOff
         /\ Provisioned(r, env)
         /\ Observed("provision", n, <<>>, r, OpErr(r.err, env.save, env.autoboot))
  \/ \E n \in 1..MaxBatch : \E env \in AddEnvs(n) :
       \E r \in {addUsers(n, env)} :
         /\ Fits(n, MaxProvIdx)
         /\ LoopOff
         /\ Saved(r, env.save)
         /\ Observed("add", n, <<>>, r, OpErr(r.err, env.save, TRUE))
  \/ \E name \in RemoveNames : \E out \in RemoveEnvs(name) :
       \E r \in {removeUser(name, out[1])} :
         /\ LoopOff
         /\ Saved(r, out[2])
         /\ Observed("remove", 0, name, r, OpErr(r.err, out[2], TRUE))

\* The engines are followed under one configuration.
InitProv == Init /\ archiveURL = UrlLatest

SpecProv == InitProv /\ [][NextProv]_vars

\* Names AddUsers passes over when it looks for the highest suffix: another
\* machine's prefix, a bare number, a suffix that is no number, suffix zero.
IgnoredNames == {ForeignName, <<"9">>, MachineID \o <<"-", "a">>, MachineID \o <<"-", "0">>}

\* The members 1..n as Initial provisioning writes them.
OwnMembers(n) == [k \in 1..n |-> User(UserName(k), LocalPort(k))]

\* Manifests found on disk by an Add: the members of an Initial provisioning,
\* alone or with one member of an ignored name before or after them.
SeedManifests ==
  {OwnMembers(n) : n \in 0..MaxBatch}
    \cup {OwnMembers(n) \o <<User(x, StartPort + 8)>> : n \in 0..MaxBatch, x \in IgnoredNames}
    \cup {<<User(x, StartPort + 8)>> \o OwnMembers(n) : n \in 0..MaxBatch, x \in IgnoredNames}

InitAdd ==
  /\ archiveURL = UrlLatest
  /\ \E seed \in SeedManifests :
       /\ manifest = Save([initialized |-> TRUE, users |-> seed])
       /\ osUsers = Names(seed)
       /\ dirs = Names(seed)
       /\ highWater = MaxSuffix(seed)
  /\ ledger = NoFile
  /\ lastOp = NoOp
  /\ pc = "idle"
  /\ cyc = NoCycle
  /\ h = NoHistory
  /\ prev = NoPrev
  /\ disk = NoDisk
  /\ loop = NoLoop
  /\ menu = NoMenu
  /\ lookup = NoLookup

\* Add provisioning and removal on a healthy OS, from any such manifest.
NextAdd ==
  \/ \E n \in 1..MaxBatch : \E r \in {addUsers(n, HealthyEnv)} :
       /\ Fits(n, MaxProvIdx)
       /\ LoopOff
       /\ Saved(r, TRUE)
       /\ Observed("add", n, <<>>, r, OpErr(r.err, TRUE, TRUE))
  \/ \E name \in RemoveNames \cup IgnoredNames : \E r \in {removeUser(name, TRUE)} :
       /\ LoopOff
       /\ Saved(r, TRUE)
       /\ Observed("remove", 0, name, r, OpErr(r.err, TRUE, TRUE))

SpecAdd == InitAdd /\ [][NextAdd]_vars

\* ------------------------------------------- writes to the stores
\* The manifests Save is given.
StoreStates == {[initialized |-> TRUE, users |-> OwnMembers(n)] : n \in 0..MaxStore}

StoreOnly ==
  UNCHANGED <<archiveURL, manifest, ledger, osUsers, dirs, lastOp, highWater,
              pc, cyc, h, prev, lookup, menu, loop>>

\* state.Save up to the call of os.WriteFile: directory, encoding, temp path.
SaveBegin(st) ==
  /\ ~disk.busy
  /\ disk' = [disk EXCEPT !.job = "save", !.busy = TRUE, !.crashed = FALSE,
                          !.path = tmpPath(StatePath), !.data = MarshalIndent(st),
                          !.open = FALSE,
                          !.oldState = disk.files[StatePath], !.newState = st]
  /\ StoreOnly

\* writeCurrentVersion up to the call of os.WriteFile: directory, file name.
LedgerBegin(tag) ==
  /\ ~disk.busy
  /\ disk' = [disk EXCEPT !.job = "ledger", !.busy = TRUE, !.crashed = FALSE,
                          !.path = VersionFile, !.data = writeCurrentVersion(tag).data,
                          !.open = FALSE,
                          !.oldLedger = disk.files[VersionFile], !.newTag = tag]
  /\ StoreOnly

\* os.WriteFile opens the file with O_CREATE|O_TRUNC.
WriteOpen ==
  /\ disk.busy /\ ~disk.open
  /\ disk' = [disk EXCEPT !.open = TRUE,
                          !.files[disk.path] = [exists |-> TRUE, data |-> <<>>]]
  /\ StoreOnly

\* os.WriteFile writes the next n bytes.
WriteSome(n) ==
  /\ disk.busy /\ disk.open
  /\ Len(disk.files[disk.path].data) + n <= Len(disk.data)
  /\ disk' = [disk EXCEPT !.files[disk.path].data =
                 SubSeq(disk.data, 1, Len(disk.files[disk.path].data) + n)]
  /\ StoreOnly

\* os.Rename(tmpPath, path) at the end of state.Save.
SaveRename ==
  /\ disk.busy /\ disk.open /\ disk.job = "save"
  /\ disk.files[disk.path].data = disk.data
  /\ disk' = [disk EXCEPT !.busy = FALSE,
                          !.files = [p \in StorePaths |->
                             IF p = StatePath THEN disk.files[tmpPath(StatePath)]
                             ELSE IF p = tmpPath(StatePath) THEN NoFile
                             ELSE disk.files[p]]]
  /\ StoreOnly

\* os.WriteFile returns to writeCurrentVersion.
LedgerDone ==
  /\ disk.busy /\ disk.open /\ disk.job = "ledger"
  /\ disk.files[disk.path].data = disk.data
  /\ disk' = [disk EXCEPT !.busy = FALSE]
  /\ StoreOnly

\* The process dies during a write; the files stay as they are.
Crash ==
  /\ disk.busy
  /\ disk' = [disk EXCEPT !.busy = FALSE, !.crashed = TRUE]
  /\ StoreOnly

NextStore ==
  \/ \E st \in StoreStates : SaveBegin(st)
  \/ \E tag \in Tags : LedgerBegin(tag)
  \/ WriteOpen
  \/ \E n \in 1..Len(disk.data) : WriteSome(n)
  \/ SaveRename
  \/ LedgerDone
  \/ Crash

SpecStore == InitProv /\ [][NextStore]_vars

\* ------------------------------------------- the latest-tag lookup alone
\* What one exchange with the releases endpoint can be.
FetchResps ==
  {RespOK(t) : t \in Tags}
    \cup {RespStatus(c) : c \in {429, 500, 403, 404}}
    \cup {RespNetErr, RespNoAsset(TagOf(1)), RespGarbage}

InitFetch ==
  /\ archiveURL = UrlLatest
  /\ manifest = [exists |-> FALSE, st |-> EmptyState]
  /\ ledger = NoFile
  /\ osUsers = {}
  /\ dirs = {}
  /\ lastOp = NoOp
  /\ highWater = 0
  /\ pc = "idle"
  /\ cyc = NoCycle
  /\ h = NoHistory
  /\ prev = NoPrev
  /\ disk = NoDisk
  /\ loop = NoLoop
  /\ menu = NoMenu
  /\ lookup \in [done : {FALSE}, url : {UrlLatest, UrlPinned(TagOf(1))},
                 resps : [1..(maxRetries + 1) -> FetchResps],
                 cancelAt : 0..maxRetries, out : {NoOut}]

\* fetchLatestRelease runs to its end.
Lookup ==
  /\ ~lookup.done
  /\ lookup' = [lookup EXCEPT !.done = TRUE,
                  !.out = fetchLatestRelease(lookup.url, lookup.resps, lookup.cancelAt)]
  /\ UNCHANGED <<archiveURL, manifest, ledger, osUsers, dirs, lastOp, highWater,
                 pc, cyc, h, prev, disk, menu, loop>>

NextFetch == Lookup

SpecFetch == InitFetch /\ [][NextFetch]_vars

\* ------------------------------------------- the bundle download alone
\* resolveArchiveURL: (url, err) and the number of exchanges made. resp is
\* the answer of the releases endpoint; the asset URL is written "asset:<tag>".
resolveArchiveURL(urlStr, resp) ==
  LET s     == TrimSpace(urlStr)
      parts == SplitN3(TrimPrefix(s, GhPrefix))
  IN IF s = <<>> THEN [url |-> <<>>, err |-> "archive_url is empty", calls |-> 0]
     ELSE IF ~HasPrefix(s, GhPrefix) THEN [url |-> s, err |-> "nil", calls |-> 0]
     ELSE IF Len(parts) # 3 THEN [url |-> <<>>, err |-> "invalid url", calls |-> 0]
     ELSE IF ~resp.net THEN [url |-> <<>>, err |-> "network", calls |-> 1]
     ELSE IF resp.status < 200 \/ resp.status >= 300
       THEN [url |-> <<>>, err |-> "status", calls |-> 1]
     ELSE IF ~resp.decodes THEN [url |-> <<>>, err |-> "decode", calls |-> 1]
     ELSE IF ~resp.asset THEN [url |-> <<>>, err |-> "asset not found", calls |-> 1]
     ELSE [url |-> <<"a", "s", "s", "e", "t", ":">> \o resp.tag, err |-> "nil", calls |-> 1]

\* downloadArchive: err and the number of exchanges made; resp is the answer
\* of the server the bundle is fetched from.
downloadArchive(urlStr, resp) ==
  IF TrimSpace(urlStr) = <<>> THEN [err |-> "archive_url is empty", calls |-> 0]
  ELSE IF ~resp.net THEN [err |-> "network", calls |-> 1]
  ELSE IF resp.status < 200 \/ resp.status >= 300 THEN [err |-> "status", calls |-> 1]
  ELSE [err |-> "nil", calls |-> 1]

\* ensureServiceArchive: a cached bundle is reused; else the locator is
\* resolved and the bundle downloaded. resps are the answers to the
\* exchanges in the order they are made. (err, exchanges made, waits slept)
ensureServiceArchive(urlStr, cached, resps) ==
  IF cached THEN [err |-> "nil", calls |-> 0, waits |-> <<>>]
  ELSE
    LET r == resolveArchiveURL(urlStr, resps[1])
    IN IF r.err # "nil" THEN [err |-> r.err, calls |-> r.calls, waits |-> <<>>]
       ELSE LET dl == downloadArchive(r.url, resps[r.calls + 1])
            IN [err |-> dl.err, calls |-> r.calls + dl.calls, waits |-> <<>>]

\* Exchanges answered during one ensureServiceArchive call.
MaxExchanges == 3

InitArchive ==
  /\ archiveURL = UrlLatest
  /\ manifest = [exists |-> FALSE, st |-> EmptyState]
  /\ ledger = NoFile
  /\ osUsers = {}
  /\ dirs = {}
  /\ lastOp = NoOp
  /\ highWater = 0
  /\ pc = "idle"
  /\ cyc = NoCycle
  /\ h = NoHistory
  /\ prev = NoPrev
  /\ disk = NoDisk
  /\ loop = NoLoop
  /\ menu = NoMenu
  /\ lookup \in [done : {FALSE}, url : ArchiveURLs, cached : BOOLEAN,
                 resps : [1..MaxExchanges -> FetchResps],
                 out : {[err |-> "nil", calls |-> 0, waits |-> <<>>]}]

\* ensureServiceArchive runs to its end.
EnsureArchive ==
  /\ ~lookup.done
  /\ lookup' = [lookup EXCEPT !.done = TRUE,
                  !.out = ensureServiceArchive(lookup.url, lookup.cached, lookup.resps)]
  /\ UNCHANGED <<archiveURL, manifest, ledger, osUsers, dirs, lastOp, highWater,
                 pc, cyc, h, prev, disk, menu, loop>>

NextArchive == EnsureArchive

SpecArchive == InitArchive /\ [][NextArchive]_vars

\* The menu alone: keys, and the completion of the commands in flight in any
\* order. What a command returns is free: an error, or a member list.
MaxInFlight == 3

MaxDigits == 2

MaxMenuUsers == 2

\* Keys, one per group the handler tells apart ("x": any other key).
Keys == {"q", "up", "down", "enter", " ", "backspace", "0", "1", "x"}

InFlight(cmds, kinds) ==
  LET RECURSIVE Sum(_)
      Sum(S) == IF S = {} THEN 0
                ELSE LET k == CHOOSE k \in S : TRUE IN cmds[k] + Sum(S \ {k})
  IN Sum(kinds)

MenuOnly ==
  UNCHANGED <<archiveURL, manifest, ledger, osUsers, dirs, lastOp, highWater,
              pc, cyc, h, prev, disk, lookup, loop>>

\* tea delivers a key to Model.Update and starts the command it returns.
Key(key) ==
  LET r == updateForKeyMsg(menu.m, key)
  IN /\ ~menu.quit
     /\ r.cmd.kind \in CmdKinds => InFlight(menu.cmds, CmdKinds) < MaxInFlight
     /\ Len(r.m.userCountInput) <= MaxDigits
     /\ menu' = [m    |-> r.m,
                 cmds |-> IF r.cmd.kind \in CmdKinds
                            THEN [menu.cmds EXCEPT ![r.cmd.kind] = @ + 1]
                          ELSE menu.cmds,
                 quit |-> r.cmd = Quit]
     /\ MenuOnly

\* What a command of the provisioning family can answer with.
ProvisionDoneMsgs ==
  {[err |-> TRUE, users |-> <<>>]}
    \cup {[err |-> FALSE, users |-> [j \in 1..k |-> User(UserName(j), LocalPort(j))]] :
            k \in 0..MaxMenuUsers}

\* runInitCmd returns: tea delivers its initDoneMsg.
InitDone(msg) ==
  /\ ~menu.quit
  /\ menu.cmds["runInitCmd"] > 0
  /\ menu' = [menu EXCEPT !.m = updateForInitDoneMsg(menu.m, msg),
                          !.cmds["runInitCmd"] = @ - 1]
  /\ MenuOnly

\* A command of the provisioning family returns: tea delivers its
\* provisionDoneMsg.
ProvisionDone(kind, msg) ==
  /\ ~menu.quit
  /\ menu.cmds[kind] > 0
  /\ menu' = [menu EXCEPT !.m = updateForProvisionDoneMsg(menu.m, msg),
                          !.cmds[kind] = @ - 1]
  /\ MenuOnly

\* runServicesCmd returns: tea delivers its servicesDoneMsg.
ServicesDone ==
  /\ ~menu.quit
  /\ menu.cmds["runServicesCmd"] > 0
  /\ menu' = [menu EXCEPT !.m = updateForServicesDoneMsg(menu.m),
                          !.cmds["runServicesCmd"] = @ - 1]
  /\ MenuOnly

NextMenu ==
  \/ \E key \in Keys : Key(key)
  \/ \E err \in BOOLEAN : \E already \in (IF err THEN {FALSE} ELSE BOOLEAN) :
       InitDone([err |-> err, AlreadyInitialized |-> already])
  \/ \E kind \in Mutating \cup {"runViewUsersCmd"} : \E msg \in ProvisionDoneMsgs :
       ProvisionDone(kind, msg)
  \/ ServicesDone

SpecMenu == InitProv /\ [][NextMenu]_vars

\* RunAutoUpdateLoop on a provisioned host whose OS layer is healthy: the
\* ticker, the cancellation of ctx, and the cycles the loop runs.
MaxTicks == 2

\* Configured intervals, in seconds: below the floor, at it, above it.
Intervals == {0 - 1, 0, Minute - 1, Minute, Minute + 1, Hour + 1}

InitLoop ==
  /\ archiveURL \in {UrlLatest, UrlPinned(TagOf(1))}
  /\ manifest = Save([initialized |-> TRUE, users |-> OwnMembers(MaxIdx)])
  /\ osUsers = Names(OwnMembers(MaxIdx))
  /\ dirs = Names(OwnMembers(MaxIdx))
  /\ highWater = MaxIdx
  /\ ledger = writeCurrentVersion(TagOf(1))
  /\ lastOp = NoOp
  /\ pc = "idle"
  /\ cyc = NoCycle
  /\ h = NoHistory
  /\ prev = NoPrev
  /\ disk = NoDisk
  /\ menu = NoMenu
  /\ lookup = NoLookup
  /\ \E d \in Intervals : loop = [NoLoop EXCEPT !.CheckInterval = d]

LoopOnly ==
  UNCHANGED <<archiveURL, manifest, ledger, osUsers, dirs, lastOp, highWater,
              pc, cyc, h, prev, disk, lookup, menu>>

\* RunAutoUpdateLoop up to the first call of checkAndUpdate.
Boot ==
  /\ loop.phase = "boot"
  /\ StartStep
  /\ loop' = [loop EXCEPT !.interval = effectiveInterval(loop.CheckInterval),
                          !.phase = "cycle", !.cycles = 1]

\* checkAndUpdate has returned: the loop creates its ticker if it has none
\* and reaches the select.
Wait ==
  /\ loop.phase = "cycle"
  /\ pc = "idle"
  /\ loop' = [loop EXCEPT !.phase = "select", !.ticker = TRUE, !.wake = "none"]
  /\ LoopOnly

\* The goroutine is parked in the select: no case was ready when it got there.
Parked == loop.phase = "select" /\ loop.wake = "none" /\ ~loop.tick /\ ~loop.cancelled

\* The ticker sends a tick; the channel holds one tick at most.
Tick ==
  /\ loop.ticker
  /\ loop.fired < MaxTicks
  /\ loop' = [loop EXCEPT !.fired = @ + 1, !.tick = TRUE,
                          !.wake = IF Parked THEN "tick" ELSE @]
  /\ LoopOnly

\* ctx is cancelled while the loop is not in a lookup's backoff.
Cancel ==
  /\ ~loop.cancelled
  /\ loop.phase # "returned"
  /\ loop' = [loop EXCEPT !.cancelled = TRUE, !.wake = IF Parked THEN "done" ELSE @]
  /\ LoopOnly

\* case <-ticker.C: checkAndUpdate
TakeTick ==
  /\ loop.phase = "select"
  /\ loop.tick
  /\ loop.wake \in {"none", "tick"}
  /\ StartStep
  /\ loop' = [loop EXCEPT !.phase = "cycle", !.tick = FALSE, !.wake = "none",
                          !.taken = @ + 1, !.cycles = @ + 1]

\* case <-ctx.Done(): return
Stop ==
  /\ loop.phase = "select"
  /\ loop.cancelled
  /\ loop.wake \in {"none", "done"}
  /\ loop' = [loop EXCEPT !.phase = "returned", !.ticker = FALSE]
  /\ LoopOnly

\* The lookup of a cycle, ctx not being cancelled before or during it.
LoopFetch(resps) ==
  /\ pc = "fetch"
  /\ ~loop.cancelled
  /\ \E f \in {fetchLatestRelease(cyc.url, resps, 0)} :
       /\ FetchStep(f)
       /\ loop' = [loop EXCEPT !.fetch = f, !.cancelAt = 0]

\* The lookup of a cycle, ctx being cancelled during wait k of it.
LoopFetchCancelled(resps, k) ==
  /\ pc = "fetch"
  /\ ~loop.cancelled
  /\ Len(fetchLatestRelease(cyc.url, resps, 0).waits) >= k
  /\ \E f \in {fetchLatestRelease(cyc.url, resps, k)} :
       /\ FetchStep(f)
       /\ loop' = [loop EXCEPT !.cancelled = TRUE, !.fetch = f, !.cancelAt = k]

\* The lookup of a cycle whose ctx is cancelled already: the exchange fails
\* at once, and ctx.Done() is ready in the first wait.
LoopFetchAfterCancel ==
  /\ pc = "fetch"
  /\ loop.cancelled
  /\ \E f \in {fetchLatestRelease(cyc.url, Script(0, RespNetErr), 1)} :
       /\ FetchStep(f)
       /\ loop' = [loop EXCEPT !.fetch = f, !.cancelAt = 1]

\* The steps of checkAndUpdate after the lookup. With ctx cancelled the
\* download fails and no connect succeeds; rsync, chown and launchctl are
\* run without ctx.
LoopCycleStep ==
  \/ CycleReadLedger
  \/ \E ok \in (IF loop.cancelled THEN {FALSE} ELSE BOOLEAN) : CycleDownload(ok)
  \/ \E listening \in (IF loop.cancelled THEN {[k \in 1..Len(cyc.users) |-> FALSE]}
                       ELSE [1..Len(cyc.users) -> BOOLEAN]) : CycleProbe(listening)
  \/ MemberStat
  \/ \E out \in {"sync failed", "chown failed"} : MemberSync(out, {}, {})
  \/ \E plists \in (IF pc = "sync" /\ ShouldRestart(cyc.statuses[cyc.i])
                       THEN SUBSET Daemons ELSE {{}}) :
       \E failing \in SUBSET plists : MemberSync("ok", plists, failing)
  \/ \E ok \in BOOLEAN : CycleFinish(ok)

\* The steps the loop takes by itself.
LoopRuns ==
  \/ Boot
  \/ Wait
  \/ TakeTick
  \/ \E resps \in CycleScripts : LoopFetch(resps)
  \/ LoopFetchAfterCancel
  \/ LoopCycleStep

NextLoop ==
  \/ LoopRuns
  \/ \E resps \in CycleScripts : \E k \in 1..maxRetries : LoopFetchCancelled(resps, k)
  \/ Tick
  \/ Cancel
  \/ Stop

SpecLoop == InitLoop /\ [][NextLoop]_vars

\* The loop under one configuration. Every step the loop can take by itself
\* is taken in the end (each call it makes returns), and the select, which
\* picks at random among the cases that are ready, does not pass over
\* ctx.Done() for ever.
InitLoopFair == InitLoop /\ archiveURL = UrlLatest /\ loop.CheckInterval = Minute

SpecLoopFair ==
  /\ InitLoopFair
  /\ [][NextLoop]_vars
  /\ WF_vars(LoopRuns)
  /\ SF_vars(Stop)

\* The Health Prober alone: one call of CheckUserServices on a manifest of
\* provisioned members, some of whose ports may have been edited to 0.
PathKinds == {"dir", "file", "missing"}

ProbeFleets ==
  LET members == UNION {{User(UserName(k), 0), User(UserName(k), LocalPort(k))} :
                          k \in 1..MaxIdx}
  IN {f \in UNION {[1..n -> members] : n \in 0..MaxIdx} :
        \A i, j \in 1..Len(f) : f[i].name = f[j].name => i = j}

InitProbe ==
  /\ archiveURL = UrlLatest
  /\ manifest = [exists |-> FALSE, st |-> EmptyState]
  /\ ledger = NoFile
  /\ osUsers = {}
  /\ dirs = {}
  /\ lastOp = NoOp
  /\ highWater = 0
  /\ pc = "idle"
  /\ cyc = NoCycle
  /\ h = NoHistory
  /\ prev = NoPrev
  /\ disk = NoDisk
  /\ menu = NoMenu
  /\ loop = NoLoop
  /\ \E users \in ProbeFleets :
       \E paths \in [1..Len(users) -> PathKinds] :
         \E connects \in [1..Len(users) -> BOOLEAN] :
           lookup = [done |-> FALSE, users |-> users, paths |-> paths, connects |-> connects,
                     out |-> [statuses |-> <<>>, err |-> "nil", dialed |-> <<>>]]

\* statuses, err := CheckUserServices(ctx, cfg, st)
Probe ==
  /\ ~lookup.done
  /\ lookup' = [lookup EXCEPT !.done = TRUE,
                              !.out = CheckUserServicesOn(lookup.users, lookup.paths,
                                                          lookup.connects)]
  /\ UNCHANGED <<archiveURL, manifest, ledger, osUsers, dirs, lastOp, highWater,
                 pc, cyc, h, prev, disk, menu, loop>>

NextProbe == Probe

SpecProbe == InitProbe /\ [][NextProbe]_vars

\* ------------------------------------------------ code sync of one member
\* A directory tree: the file at every path the model follows (NoFile: no
\* such file). Paths are sequences of components.
Excludes == {"config.json", "frpc.toml", "prism-host", "prism"}

\* The instance-specific files of a member, in its service directory.
InstanceFiles == {<<x>> : x \in Excludes}

CodeFiles == {<<"server">>, <<"app", "config.json">>}

TreePaths == InstanceFiles \cup CodeFiles

NoTree == [p \in TreePaths |-> NoFile]

\* rsync --exclude NAME: a path is left out if one of its components is NAME.
Excluded(path, names) == \E i \in 1..Len(path) : path[i] \in names

\* rsync -a src/ dst/ leaving out the paths with a component in `names`, of
\* which the files in `done` are transferred (all of them unless rsync fails).
rsync(src, dst, names, done) ==
  [p \in TreePaths |->
     IF src[p].exists /\ ~Excluded(p, names) /\ p \in done THEN src[p] ELSE dst[p]]

\* Variant: only config.json is left out.
syncServiceDirConfigOnly(src, dst, done) == rsync(src, dst, {"config.json"}, done)

\* syncServiceDir(src, dst): the tree at dst after the call.
syncServiceDir(src, dst, done) == rsync(src, dst, Excludes, done)

\* copyDir(src, dst)
copyDir(src, dst) == rsync(src, dst, {}, TreePaths)

\* A file written for the member at provisioning.
Written == [exists |-> TRUE, data |-> <<"member">>]

\* ensurePerUserFiles, as far as the service directory goes: the bundle is
\* copied, config.json and frpc.toml are written, and so are prism-host and
\* prism when prismPath is not empty.
ensurePerUserFiles(extractDir, prismPath) ==
  [p \in TreePaths |->
     IF p \in {<<"config.json">>, <<"frpc.toml">>} THEN Written
     ELSE IF p \in {<<"prism-host">>, <<"prism">>} /\ prismPath THEN Written
     ELSE copyDir(extractDir, NoTree)[p]]

\* The bundle of release t: the files it holds carry the bytes of t.
Bundle(t, shape) ==
  [p \in TreePaths |-> IF p \in shape THEN [exists |-> TRUE, data |-> t] ELSE NoFile]

\* The files a bundle may hold: the server always, any of the others.
BundleShapes == {s \in SUBSET TreePaths : <<"server">> \in s}

MaxSyncs == 2

\* One member from its provisioning on: lookup.bundle is the extracted
\* bundle, lookup.dir the member's service directory, lookup.orig the
\* directory as provisioning left it and lookup.syncs the syncs made (history).
InitSync ==
  /\ archiveURL = UrlLatest
  /\ manifest = [exists |-> FALSE, st |-> EmptyState]
  /\ ledger = NoFile
  /\ osUsers = {}
  /\ dirs = {}
  /\ lastOp = NoOp
  /\ highWater = 0
  /\ pc = "idle"
  /\ cyc = NoCycle
  /\ h = NoHistory
  /\ prev = NoPrev
  /\ disk = NoDisk
  /\ menu = NoMenu
  /\ loop = NoLoop
  /\ \E shape \in BundleShapes : \E prismPath \in BOOLEAN :
       LET b == Bundle(TagOf(1), shape)
           d == ensurePerUserFiles(b, prismPath)
       IN lookup = [bundle |-> b, dir |-> d, orig |-> d, syncs |-> 0, manual |-> FALSE]

SyncOnly ==
  UNCHANGED <<archiveURL, manifest, ledger, osUsers, dirs, lastOp, highWater,
              pc, cyc, h, prev, disk, menu, loop>>

\* ensureServiceArchive after the cached archive was removed: the extract
\* directory is emptied and the bundle of a release extracted into it.
Extract(t, shape) ==
  /\ lookup.bundle # Bundle(t, shape)
  /\ lookup' = [lookup EXCEPT !.bundle = Bundle(t, shape)]
  /\ SyncOnly

\* performUpdate, member loop: syncServiceDir(extractDir, serviceDir); rsync
\* transfers the files in done and then succeeds or fails.
SyncAuto(done) ==
  /\ lookup.syncs < MaxSyncs
  /\ lookup' = [lookup EXCEPT !.dir = syncServiceDir(lookup.bundle, lookup.dir, done),
                              !.syncs = @ + 1, !.manual = FALSE]
  /\ SyncOnly

\* UpdateUserCode, member loop: syncServiceDir(extractDir, serviceDir)
SyncManual(done) ==
  /\ lookup.syncs < MaxSyncs
  /\ lookup' = [lookup EXCEPT !.dir = syncServiceDir(lookup.bundle, lookup.dir, done),
                              !.syncs = @ + 1, !.manual = TRUE]
  /\ SyncOnly

NextSync ==
  \/ \E t \in Tags : \E shape \in BundleShapes : Extract(t, shape)
  \/ \E done \in SUBSET {p \in TreePaths : lookup.bundle[p].exists} : SyncAuto(done)
  \/ \E done \in SUBSET {p \in TreePaths : lookup.bundle[p].exists} : SyncManual(done)

SpecSync == InitSync /\ [][NextSync]_vars

\* ------------------------------------------------ restart of one member
MaxRestarts == 2

\* One member and its environment: lookup.known says whether the OS knows the
\* account, lookup.plists which descriptors lie in ~/Library/LaunchAgents and
\* lookup.failing which daemons' kickstart fails. lookup.fn is the restart
\* last made, lookup.kicks the daemons it signalled, lookup.named the daemons
\* its error names, lookup.err its error and lookup.n the restarts made.
InitRestart ==
  /\ archiveURL = UrlLatest
  /\ manifest = [exists |-> FALSE, st |-> EmptyState]
  /\ ledger = NoFile
  /\ osUsers = {}
  /\ dirs = {}
  /\ lastOp = NoOp
  /\ highWater = 0
  /\ pc = "idle"
  /\ cyc = NoCycle
  /\ h = NoHistory
  /\ prev = NoPrev
  /\ disk = NoDisk
  /\ menu = NoMenu
  /\ loop = NoLoop
  /\ \E known \in BOOLEAN : \E plists \in SUBSET Daemons : \E failing \in SUBSET Daemons :
       lookup = [known |-> known, plists |-> plists, failing |-> failing,
                 fn |-> "none", kicks |-> {}, named |-> {}, err |-> "nil", n |-> 0]

RestartOnly ==
  UNCHANGED <<archiveURL, manifest, ledger, osUsers, dirs, lastOp, highWater,
              pc, cyc, h, prev, disk, menu, loop>>

\* performUpdate, restart of a running member: restartUserLaunchAgents
RestartInCycle ==
  LET r == restartUserLaunchAgents(lookup.known, lookup.plists, lookup.failing)
  IN /\ lookup.n < MaxRestarts
     /\ lookup' = [lookup EXCEPT !.fn = "restartUserLaunchAgents",
                                 !.kicks = r.kicks,
                                 !.named = {d \in Daemons : r.err = KickFn(d)},
                                 !.err = r.err,
                                 !.n = @ + 1]
     /\ RestartOnly

\* UpdateUserCode, restart of a running member: RestartUserDaemons
RestartByRegistrar ==
  LET r == RestartUserDaemons(lookup.failing)
  IN /\ lookup.n < MaxRestarts
     /\ lookup' = [lookup EXCEPT !.fn = "RestartUserDaemons",
                                 !.kicks = {r.kicks[j] : j \in 1..Len(r.kicks)},
                                 !.named = {r.errs[j] : j \in 1..Len(r.errs)},
                                 !.err = r.err,
                                 !.n = @ + 1]
     /\ RestartOnly

NextRestart == RestartInCycle \/ RestartByRegistrar

SpecRestart == InitRestart /\ [][NextRestart]_vars

\* ------------------------------------------ loading daemon descriptors
\* BootstrapUserLaunchDaemons: bootstrapWithRetry(plist, 3)
BootRetries == 3

\* An answer of `launchctl bootstrap system <plist>`: its exit status and the
\* phrases its output contains.
Answer(exit, output) == [exit |-> exit, output |-> output]

AnswerOK == Answer(0, {})

AnswersAlready == {Answer(37, {"already bootstrapped"}), Answer(17, {"EEXIST"})}

AnswersFailed == {Answer(5, {"Input/output error"}), Answer(1, {})}

Answers == {AnswerOK} \cup AnswersAlready \cup AnswersFailed

\* The error of bootstrapDaemon: "<plist>: <exit status> (<output>)"
BootErr(plist, a) == [failed |-> TRUE, plist |-> plist, exit |-> a.exit, output |-> a.output]

NoBootErr == [failed |-> FALSE, plist |-> "", exit |-> 0, output |-> {}]

\* Variant: only "already bootstrapped" is taken for a loaded descriptor.
bootstrapDaemonByPhrase(plist, a) ==
  IF a.exit # 0
    THEN IF "already bootstrapped" \in a.output
           THEN [err |-> NoBootErr, enabled |-> FALSE]
         ELSE [err |-> BootErr(plist, a),
               enabled |-> FALSE]
  ELSE [err |-> NoBootErr, enabled |-> TRUE]

\* bootstrapDaemon(plistPath) when launchctl answers a: the error, and
\* whether `launchctl enable` was run.
bootstrapDaemon(plist, a) ==
  IF a.exit # 0
    THEN IF "already bootstrapped" \in a.output \/ "EEXIST" \in a.output
           THEN [err |-> NoBootErr, enabled |-> FALSE]
         ELSE [err |-> BootErr(plist, a),
               enabled |-> FALSE]
  ELSE [err |-> NoBootErr, enabled |-> TRUE]

\* The loop of bootstrapWithRetry from attempt i on; script[i + 1] is the
\* answer to attempt i. sleeps are the seconds slept, asked the attempts made.
RECURSIVE bootstrapLoop(_, _, _, _, _, _)
bootstrapLoop(plist, retries, script, i, lastErr, acc) ==
  IF i > retries
    THEN [err |-> lastErr, sleeps |-> acc.sleeps, asked |-> acc.asked, enabled |-> FALSE]
  ELSE LET sleeps == IF i > 0 THEN Append(acc.sleeps, i) ELSE acc.sleeps
           r      == bootstrapDaemon(plist, script[i + 1])
       IN IF r.err = NoBootErr
            THEN [err |-> NoBootErr, sleeps |-> sleeps, asked |-> i + 1, enabled |-> r.enabled]
          ELSE bootstrapLoop(plist, retries, script, i + 1, r.err,
                             [sleeps |-> sleeps, asked |-> i + 1])

\* bootstrapWithRetry(plistPath, retries)
bootstrapWithRetry(plist, retries, script) ==
  bootstrapLoop(plist, retries, script, 0, NoBootErr, [sleeps |-> <<>>, asked |-> 0])

MaxBoots == 2

NoRun == [plist |-> "none", wasLoaded |-> FALSE, script |-> <<>>, err |-> NoBootErr,
          sleeps |-> <<>>, asked |-> 0, enabled |-> FALSE]

\* The descriptors of one member: lookup.plists are those installed in
\* /Library/LaunchDaemons, lookup.loaded those the service manager has
\* loaded. lookup.stage is the position of BootstrapUserLaunchDaemons,
\* lookup.err its error, lookup.last the last bootstrapWithRetry with the
\* answers it got (history) and lookup.n the calls begun.
InitBoot ==
  /\ archiveURL = UrlLatest
  /\ manifest = [exists |-> FALSE, st |-> EmptyState]
  /\ ledger = NoFile
  /\ osUsers = {}
  /\ dirs = {}
  /\ lastOp = NoOp
  /\ highWater = 0
  /\ pc = "idle"
  /\ cyc = NoCycle
  /\ h = NoHistory
  /\ prev = NoPrev
  /\ disk = NoDisk
  /\ menu = NoMenu
  /\ loop = NoLoop
  /\ \E plists \in SUBSET Daemons : \E loaded \in SUBSET plists :
       lookup = [plists |-> plists, loaded |-> loaded, stage |-> "idle",
                 err |-> "nil", last |-> NoRun, n |-> 0]

BootOnly ==
  UNCHANGED <<archiveURL, manifest, ledger, osUsers, dirs, lastOp, highWater,
              pc, cyc, h, prev, disk, menu, loop>>

\* The answers launchctl can give to the attempts for a descriptor: one that
\* is loaded is answered as loaded; one that is not is loaded by the attempt,
\* refused, or found loaded by the service manager itself in the meantime.
Scripts(plist) ==
  [1..(BootRetries + 1) -> IF plist \in lookup.loaded THEN AnswersAlready ELSE Answers]

\* BootstrapUserLaunchDaemons is entered.
BootstrapBegin ==
  /\ lookup.stage = "idle"
  /\ lookup.n < MaxBoots
  /\ lookup' = [lookup EXCEPT !.stage = "frpc", !.err = "nil", !.n = @ + 1]
  /\ BootOnly

\* "bootstrap frpc: ...", "bootstrap server: ..."
BootFn(plist) == IF plist = "frpc" THEN "bootstrap frpc" ELSE "bootstrap server"

\* One descriptor of BootstrapUserLaunchDaemons: if the file is there,
\* bootstrapWithRetry(plist, 3); an error ends the call.
BootstrapPlist(plist, next, script) ==
  LET r   == bootstrapWithRetry(plist, BootRetries, script)
      run == [plist |-> plist, wasLoaded |-> plist \in lookup.loaded,
              script |-> SubSeq(script, 1, r.asked), err |-> r.err,
              sleeps |-> r.sleeps, asked |-> r.asked, enabled |-> r.enabled]
  IN /\ lookup.stage = plist
     /\ IF plist \notin lookup.plists
          THEN lookup' = [lookup EXCEPT !.stage = next]
        ELSE IF r.err # NoBootErr
          THEN lookup' = [lookup EXCEPT !.stage = "idle", !.last = run,
                                        !.err = BootFn(plist)]
        ELSE lookup' = [lookup EXCEPT !.stage = next, !.last = run,
                                      !.loaded = @ \cup {plist}]
     /\ BootOnly

BootstrapFrpc == \E script \in Scripts("frpc") : BootstrapPlist("frpc", "server", script)

BootstrapServer == \E script \in Scripts("server") : BootstrapPlist("server", "idle", script)

NextBoot == BootstrapBegin \/ BootstrapFrpc \/ BootstrapServer

SpecBoot == InitBoot /\ [][NextBoot]_vars

\* ------------------------------- the extract directory, shared
\* The files of the bundle, in the order tar writes them into cache/imsg.
BundleFiles == {"server", "frpc"}

TarOrder == <<"server", "frpc">>

MaxCalls == 2

MaxExtractMembers == 2

\* One cycle and the interactive calls that run beside it. lookup.tree are the
\* files in cache/imsg. lookup.cpc is the position of performUpdate
\* ("remove", "tar", "sync", "finish", "returned"), lookup.ct the files its
\* tar has written, lookup.ci the member at hand, lookup.from the tree each
\* member counted as updated was synced from (history) and lookup.advanced
\* whether the ledger was written. lookup.ipc is the position of the
\* interactive call ("idle", "remove", "tar"), lookup.kind the call,
\* lookup.it the files its tar has written and lookup.calls the calls begun.
InitExtract ==
  /\ archiveURL = UrlLatest
  /\ manifest = [exists |-> FALSE, st |-> EmptyState]
  /\ ledger = NoFile
  /\ osUsers = {}
  /\ dirs = {}
  /\ lastOp = NoOp
  /\ highWater = 0
  /\ pc = "idle"
  /\ cyc = NoCycle
  /\ h = NoHistory
  /\ prev = NoPrev
  /\ disk = NoDisk
  /\ menu = NoMenu
  /\ loop = NoLoop
  /\ \E n \in 1..MaxExtractMembers :
       lookup = [tree |-> BundleFiles, members |-> n,
                 cpc |-> "remove", ct |-> 0, ci |-> 1, from |-> <<>>, advanced |-> FALSE,
                 ipc |-> "idle", kind |-> "none", it |-> 0, calls |-> 0]

ExtractOnly ==
  UNCHANGED <<archiveURL, manifest, ledger, osUsers, dirs, lastOp, highWater,
              pc, cyc, h, prev, disk, menu, loop>>

\* ensureServiceArchive: _ = os.RemoveAll(extractDir); os.MkdirAll(extractDir)
RemoveAllExtractDir(tree) == {}

\* tar -xzf archivePath -C extractDir, writing its j-th file
TarWrites(tree, j) == tree \cup {TarOrder[j]}

\* performUpdate: ensureServiceArchive empties the extract directory
CycleRemoveAll ==
  /\ lookup.cpc = "remove"
  /\ lookup' = [lookup EXCEPT !.tree = RemoveAllExtractDir(@), !.cpc = "tar", !.ct = 0]
  /\ ExtractOnly

\* performUpdate: the tar of ensureServiceArchive writes its next file; after
\* the last one the member loop begins.
CycleTar ==
  /\ lookup.cpc = "tar"
  /\ lookup' = [lookup EXCEPT !.tree = TarWrites(@, lookup.ct + 1),
                              !.ct = @ + 1,
                              !.cpc = IF lookup.ct + 1 = Len(TarOrder) THEN "sync" ELSE "tar"]
  /\ ExtractOnly

\* performUpdate, member loop: syncServiceDir(extractDir, serviceDir) copies
\* what the extract directory holds; ok is the outcome of rsync, chown and
\* the restart together. A member that passes is counted.
CycleSyncMember(ok) ==
  /\ lookup.cpc = "sync"
  /\ lookup' = [lookup EXCEPT
                  !.from = IF ok THEN Append(@, lookup.tree) ELSE @,
                  !.ci = @ + 1,
                  !.cpc = IF lookup.ci + 1 > lookup.members THEN "finish" ELSE "sync"]
  /\ ExtractOnly

\* checkAndUpdate after performUpdate: the ledger is written if updatedCount > 0
CycleEnd ==
  /\ lookup.cpc = "finish"
  /\ lookup' = [lookup EXCEPT !.cpc = "returned", !.advanced = Len(lookup.from) > 0]
  /\ ExtractOnly

\* AddUsers or UpdateUserCode is entered from the menu.
CallBegin(kind) ==
  /\ lookup.ipc = "idle"
  /\ lookup.calls < MaxCalls
  /\ lookup.cpc # "returned"
  /\ lookup' = [lookup EXCEPT !.ipc = "remove", !.kind = kind, !.calls = @ + 1]
  /\ ExtractOnly

\* AddUsers: ensureServiceArchive; UpdateUserCode: refreshServiceArchive. The
\* extract directory is emptied.
CallRemoveAll ==
  /\ lookup.ipc = "remove"
  /\ lookup' = [lookup EXCEPT !.tree = RemoveAllExtractDir(@), !.ipc = "tar", !.it = 0]
  /\ ExtractOnly

\* The tar of the interactive call writes its next file; after the last one
\* the call goes on without touching the extract directory again.
CallTar ==
  /\ lookup.ipc = "tar"
  /\ lookup' = [lookup EXCEPT !.tree = TarWrites(@, lookup.it + 1),
                              !.it = @ + 1,
                              !.ipc = IF lookup.it + 1 = Len(TarOrder) THEN "idle" ELSE "tar"]
  /\ ExtractOnly

NextExtract ==
  \/ CycleRemoveAll
  \/ CycleTar
  \/ \E ok \in BOOLEAN : CycleSyncMember(ok)
  \/ CycleEnd
  \/ \E kind \in {"add", "update"} : CallBegin(kind)
  \/ CallRemoveAll
  \/ CallTar

SpecExtract == InitExtract /\ [][NextExtract]_vars

\* ------------------------------------------------------------ properties
\* C1: a cycle sets the ledger to the latest tag only if at least one member
\* was updated in it; a cycle that updated nobody ends with the error "no
\* users were updated", leaves the ledger as it was, and the ledger tag still
\* differs from the latest tag, so the next tick finds the same update to do.
C1_LedgerOnlyAfterAnUpdate ==
  [][/\ (pc # "idle" /\ ledger' # ledger)
          => (cyc.updatedCount >= 1 /\ readCurrentVersion(ledger').tag = cyc.latestTag)
     /\ (pc = "finish" /\ pc' = "idle" /\ cyc.updatedCount = 0)
          => /\ ledger' = ledger
             /\ h'.result = "no users were updated"
             /\ ledger.exists
             /\ readCurrentVersion(ledger').tag # cyc.latestTag]_vars

\* C1 case: a cycle synced a member, updated none, and has returned.
C1_Witness ==
  /\ pc = "idle"
  /\ h.result = "no users were updated"
  /\ h.synced >= 1
  /\ readCurrentVersion(ledger).tag # h.tag

\* C2 as stated: a cycle that gets the tag the cycle before it got does no
\* sync and no restart.
C2_SameTagNoWork ==
  (prev.tag # <<>> /\ h.tag = prev.tag) => (h.synced = 0 /\ h.kicks = 0)

\* C2: a cycle that gets the tag the cycle before it got does no sync and no
\* restart, provided the cycle before it returned without error and no
\* interactive call ran since that cycle started.
C2_SameTagNoWorkAfterSuccess ==
  (prev.ok /\ prev.tag # <<>> /\ h.tag = prev.tag) => (h.synced = 0 /\ h.kicks = 0)

\* C2 case: the second of two successful cycles with the same tag has returned,
\* having compared the tag with the ledger.
C2_Witness ==
  /\ pc = "idle"
  /\ h.result = "nil"
  /\ prev.ok
  /\ prev.tag # <<>>
  /\ h.tag = prev.tag
  /\ ledger.exists

\* C3: a member whose directory exists goes on to the sync; the sync of a
\* member is attempted whatever its port; a member the prober reported as not
\* listening gets no kickstart in its turn.
C3_NoRestartUnlessListening ==
  [][/\ (pc = "stat" /\ cyc.users[cyc.i].name \in dirs /\ (pc' # pc \/ cyc' # cyc))
          => pc' = "sync"
     /\ (pc = "sync" /\ cyc'.i # cyc.i)
          => /\ h'.synced = h.synced + 1
             /\ (~cyc.statuses[cyc.i].PortListening => h'.kicks = h.kicks)]_vars

\* C3 case: the first member was reported not listening, has been synced and
\* counted, and no kickstart was issued.
C3_Witness ==
  /\ pc \in {"stat", "finish"}
  /\ cyc.i = 2
  /\ cyc.statuses[1].ServiceDirOK
  /\ ~cyc.statuses[1].PortListening
  /\ h.synced = 1
  /\ h.kicks = 0
  /\ cyc.updatedCount = 1

\* C4: in a cycle whose locator has the form gh://owner/repo/asset@tag, no
\* release lookup, no download, no sync and no ledger write happens, and the
\* cycle does not get past the resolver.
C4_PinnedNeverUpdates ==
  LET at == Index(cyc.url, "@")
  IN (HasPrefix(cyc.url, GhPrefix) /\ at > 0 /\ at < Len(cyc.url))
       => /\ ~h.fetched
          /\ h.downloads = 0
          /\ h.synced = 0
          /\ ~h.wrote
          /\ pc \in {"idle", "fetch"}

\* C4 case: a cycle with a pinned locator has returned on a host with members
\* whose ledger holds a tag other than the pinned one.
C4_Witness ==
  /\ pc = "idle"
  /\ h.result = "nil"
  /\ cyc.url = UrlPinned(TagOf(1))
  /\ Len(cyc.users) > 0
  /\ ledger.exists
  /\ readCurrentVersion(ledger).tag # TagOf(1)

\* C5: while the ledger file does not exist, no cycle has downloaded, synced,
\* restarted or written the ledger, and no cycle is past the ledger read.
C5_NoLedgerNoUpdate ==
  ~ledger.exists
    => /\ h.downloads = 0
       /\ h.synced = 0
       /\ h.kicks = 0
       /\ ~h.wrote
       /\ pc \in {"idle", "fetch", "ledger"}

\* C5 case: a cycle on a host with members got a latest tag, found no ledger
\* and has returned nil.
C5_Witness ==
  /\ pc = "idle"
  /\ ~ledger.exists
  /\ h.result = "nil"
  /\ h.tag # <<>>
  /\ Len(cyc.users) > 0

\* C6: a cycle that starts on a manifest without members returns nil at once,
\* without release lookup, download or sync, leaving ledger and manifest as
\* they were.
C6_EmptyFleetIsANoOp ==
  [][(pc = "idle" /\ Load(manifest).users = <<>> /\ h'.result # "none")
       => /\ pc' = "idle"
          /\ h'.result = "nil"
          /\ ~h'.fetched
          /\ h'.downloads = 0
          /\ h'.synced = 0
          /\ ledger' = ledger
          /\ manifest' = manifest]_vars

\* C6 case: a cycle has returned on a host whose manifest file exists and
\* holds no member, with a ledger and an unpinned versioned locator.
C6_Witness ==
  /\ pc = "idle"
  /\ h.result = "nil"
  /\ cyc.users = <<>>
  /\ cyc.url = UrlLatest
  /\ manifest.exists
  /\ ledger.exists

\* C7 as stated: a cycle that downloaded the bundle, skipped no member, was
\* not disturbed and whose ledger write did not fail has synced every member,
\* issued two kickstarts per member reported listening, and left the latest
\* tag in the ledger.
C7_UpdateRestartsBothDaemons ==
  (/\ pc = "idle"
   /\ h.downloads = 1
   /\ h.result \notin {"perform update", "write current version"}
   /\ h.skipped = 0
   /\ ~h.disturbed)
    => /\ h.synced = Len(cyc.users)
       /\ h.kicks = 2 * Cardinality({k \in 1..Len(cyc.statuses) :
                                        cyc.statuses[k].PortListening})
       /\ readCurrentVersion(ledger).tag = cyc.latestTag

\* C8: the member loop moves from every member to the next one, skipped or
\* not, and ends only after the last one; a member that is not skipped in its
\* turn was synced and is counted.
C8_SkipDoesNotAbort ==
  [][(pc \in {"stat", "sync"} /\ cyc'.i # cyc.i)
       => /\ cyc'.i = cyc.i + 1
          /\ pc' = IF cyc.i < Len(cyc.users) THEN "stat" ELSE "finish"
          /\ h'.skipped = h.skipped
               => /\ cyc'.updatedCount = cyc.updatedCount + 1
                  /\ h'.synced = h.synced + 1]_vars

\* C8 case: the loop is over, a member was skipped and a later one counted.
C8_Witness ==
  /\ pc = "finish"
  /\ h.skipped >= 1
  /\ h.okAfterSkip
  /\ cyc.updatedCount >= 1

\* C9: an Initial provisioning of n members that the engine completed on an
\* empty manifest returned exactly n members, the k-th named <machine_id>-k
\* (k in decimal, no sign, no leading zero) with port start_port + k - 1.
C9_InitialNamesAndPorts ==
  (lastOp.op = "provision" /\ lastOp.after # <<>>)
    => /\ lastOp.before = <<>>
       /\ Len(lastOp.after) = lastOp.n
       /\ \A k \in 1..Len(lastOp.after) :
            LET name == lastOp.after[k].name
                suf  == SubSeq(name, Len(MachineID) + 2, Len(name))
            IN /\ SubSeq(name, 1, Len(MachineID) + 1) = MachineID \o <<"-">>
               /\ suf # <<>>
               /\ Head(suf) \notin {"+", "-", "0"}
               /\ Atoi(suf) = [ok |-> TRUE, val |-> k]
               /\ lastOp.after[k].port = StartPort + k - 1

\* C9 case: an Initial provisioning of at least two members returned nil.
C9_Witness ==
  /\ lastOp.op = "provision"
  /\ lastOp.err = "nil"
  /\ Len(lastOp.after) >= 2

\* C10 as stated: the members an Add appends get suffixes above the highest
\* suffix the manifest has held since the Initial provisioning, whether or
\* not that member has been removed since.
C10_AddNeverReusesASuffix ==
  (lastOp.op = "add" /\ lastOp.after # <<>>)
    => \A k \in (Len(lastOp.before) + 1)..Len(lastOp.after) :
         LET name == lastOp.after[k].name
         IN Atoi(SubSeq(name, Len(MachineID) + 2, Len(name))).val > lastOp.hw

\* C11: under a fixed configuration, after any sequence of successful and
\* failed Initial, Add and Remove calls the persisted manifest is well formed:
\* every member is named <machine_id>-<suffix> with a suffix of at least 1,
\* the suffixes strictly increase in list order, every port is
\* start_port + (suffix - 1), and names and ports are pairwise distinct.
C11_ManifestWellFormed ==
  LET us == Load(manifest).users
  IN /\ \A k \in 1..Len(us) :
          /\ HasPrefix(us[k].name, MachineID \o <<"-">>)
          /\ Atoi(TrimPrefix(us[k].name, MachineID \o <<"-">>)).ok
          /\ SuffixOf(us[k].name) >= 1
          /\ us[k].port = StartPort + (SuffixOf(us[k].name) - 1)
     /\ \A j, k \in 1..Len(us) :
          j < k => /\ SuffixOf(us[j].name) < SuffixOf(us[k].name)
                   /\ us[j].name # us[k].name
                   /\ us[j].port # us[k].port

\* A manifest of two members or more whose first member was removed and to
\* which a member was added afterwards.
C11_Witness ==
  LET us == Load(manifest).users
  IN /\ lastOp.op = "add" /\ lastOp.err = "nil"
     /\ Len(us) >= 2
     /\ SuffixOf(us[1].name) > 1

\* The suffixes of the members of users that carry the machine-id prefix
\* followed by a positive number.
OwnSuffixes(users) ==
  {SuffixOf(users[j].name) : j \in {i \in 1..Len(users) :
      /\ HasPrefix(users[i].name, MachineID \o <<"-">>)
      /\ Atoi(TrimPrefix(users[i].name, MachineID \o <<"-">>)).ok
      /\ SuffixOf(users[i].name) > 0}}

HighestOwnSuffix(users) ==
  IF OwnSuffixes(users) = {} THEN 0
  ELSE CHOOSE v \in OwnSuffixes(users) : \A w \in OwnSuffixes(users) : w <= v

Creations(calls) ==
  {k \in 1..Len(calls) : calls[k].fn \in {"createSystemUser", "appendPassword"}}

\* C13: Initial provisioning is rejected when the manifest already holds a
\* member, and Add provisioning when it holds none; a rejected call creates no
\* OS identity, no member step appends to the secrets file, and the persisted
\* manifest is unchanged.
C13_WrongModeIsRejected ==
  [][((lastOp'.op = "provision" /\ Load(manifest).users # <<>>)
        \/ (lastOp'.op = "add" /\ Load(manifest).users = <<>>))
       => /\ lastOp'.err = (IF lastOp'.op = "provision"
                              THEN "users already provisioned" ELSE "no existing users")
          /\ Creations(lastOp'.calls) = {}
          /\ osUsers' = osUsers
          /\ manifest' = manifest
          /\ lastOp'.ret = Load(manifest).users]_vars

\* An Initial provisioning was asked for, and refused, on a manifest that
\* held a member.
C13_Witness ==
  /\ lastOp.op = "provision"
  /\ lastOp.before # <<>>
  /\ lastOp.err = "users already provisioned"

\* The errors with which a step of the member loop ends a batch.
MemberErrs == {"check user", "already exists", "create user", "save password",
               "per-user files", "launch daemons"}

\* The names whose identity creation the trace shows to have succeeded: the
\* creation was followed by a further call.
CreatedIn(calls) ==
  {calls[k].name : k \in {j \in 1..Len(calls) :
      calls[j].fn = "createSystemUser" /\ j < Len(calls)}}

\* C14: when a step of member k of a batch fails (existence check, identity
\* creation, secrets append, file materialization or daemon registration),
\* the engine returns the manifest it was given, the caller saves nothing and
\* the persisted manifest is unchanged, while the OS identities created before
\* the failure (member k's too, once created) still exist: nothing is rolled
\* back.
C14_FailedBatchLeavesManifest ==
  [][(lastOp'.op \in {"provision", "add"} /\ lastOp'.err \in MemberErrs)
       => /\ lastOp'.ret = Load(manifest).users
          /\ manifest' = manifest
          /\ osUsers \subseteq osUsers'
          /\ CreatedIn(lastOp'.calls) \subseteq osUsers'
          /\ \A k \in (Len(Load(manifest).users) + 1)..Len(lastOp'.made) :
               lastOp'.made[k].name \in osUsers']_vars

\* A batch failed at its second member after the identity of the first one,
\* and of the second one, had been created; neither is in the manifest.
C14_Witness ==
  /\ lastOp.op \in {"provision", "add"}
  /\ lastOp.err = "per-user files"
  /\ Len(lastOp.made) = Len(lastOp.before) + 1
  /\ Cardinality(CreatedIn(lastOp.calls)) = 2
  /\ CreatedIn(lastOp.calls) \subseteq osUsers
  /\ CreatedIn(lastOp.calls) \cap Names(Load(manifest).users) = {}

\* Position of the first call fn in a trace, 0 when it was not made.
CallAt(calls, fn) ==
  IF \E k \in 1..Len(calls) : calls[k].fn = fn
    THEN CHOOSE k \in 1..Len(calls) :
           calls[k].fn = fn /\ \A j \in 1..(k - 1) : calls[j].fn # fn
    ELSE 0

\* C15: in every removal of an existing member both daemons are unregistered
\* (both descriptors unloaded, both descriptor files deleted) before the
\* deletion of the OS identity is attempted, and the member leaves the
\* manifest, which is then persisted, only after that deletion succeeded.
C15_UnregisterThenDeleteThenSave ==
  [][(lastOp'.op = "remove" /\ lastOp'.name \in Names(Load(manifest).users))
       => LET calls == lastOp'.calls
              del   == CallAt(calls, "deleteUser")
          IN /\ del > 0
             /\ \A fn \in {"bootout server", "bootout frpc",
                            "remove server plist", "remove frpc plist"} :
                  /\ CallAt(calls, fn) > 0
                  /\ CallAt(calls, fn) < del
                  /\ calls[CallAt(calls, fn)].name = lastOp'.name
             /\ CallAt(calls, "bootout server") < CallAt(calls, "remove server plist")
             /\ CallAt(calls, "bootout frpc") < CallAt(calls, "remove frpc plist")
             /\ (manifest' # manifest =>
                   /\ lastOp'.err = "nil"
                   /\ CallAt(calls, "RemoveAll home") > del
                   /\ lastOp'.name \notin osUsers'
                   /\ Load(manifest').users = lastOp'.after
                   /\ lastOp'.name \notin Names(lastOp'.after))
             /\ (lastOp'.err = "delete user" =>
                   manifest' = manifest /\ lastOp'.ret = Load(manifest).users)]_vars

\* A member was removed: its daemons were unregistered, its identity deleted,
\* and the manifest without it was saved.
C15_Witness ==
  /\ lastOp.op = "remove" /\ lastOp.err = "nil"
  /\ lastOp.name \in Names(lastOp.before)
  /\ lastOp.name \notin Names(Load(manifest).users)
  /\ Len(lastOp.calls) = 6

\* C16: RemoveUser for a name that is no member of the manifest, or that lacks
\* the <machine_id>- prefix, fails without unregistering a daemon and without
\* deleting an identity; it returns the manifest unchanged and the Initializer
\* saves nothing.
C16_RemoveOfNonMemberFails ==
  [][(lastOp'.op = "remove" /\ lastOp'.name \notin Names(Load(manifest).users))
       => /\ lastOp'.err = (IF HasPrefix(lastOp'.name, MachineID \o <<"-">>)
                              THEN "not found" ELSE "wrong machine_id")
          /\ lastOp'.calls = <<>>
          /\ lastOp'.ret = Load(manifest).users
          /\ manifest' = manifest
          /\ osUsers' = osUsers
          /\ dirs' = dirs]_vars

\* The removal of a name that is no member, although an OS identity of that
\* name exists, was refused.
C16_Witness ==
  /\ lastOp.op = "remove"
  /\ lastOp.err = "not found"
  /\ lastOp.name \in osUsers
  /\ lastOp.name \notin Names(Load(manifest).users)

\* C17: Save is crash-safe. Whatever step of a Save the process dies in, and
\* at every step of it, the file at the manifest path holds the complete
\* previous manifest or the complete new one, never a part of one, and Load
\* returns one of the two.
C17_SaveIsCrashSafe ==
  LET file   == disk.files[StatePath]
      loaded == LoadFile(file)
  IN /\ file \in {disk.oldState, [exists |-> TRUE, data |-> MarshalIndent(disk.newState)]}
     /\ loaded.err = "nil"
     /\ loaded.st \in {LoadFile(disk.oldState).st, disk.newState}

\* The process died while Save was writing the temp file, which holds a part
\* of the new manifest; the manifest path holds the previous manifest.
C17_Witness ==
  /\ disk.job = "save" /\ disk.crashed
  /\ disk.files[tmpPath(StatePath)].exists
  /\ 0 < Len(disk.files[tmpPath(StatePath)].data)
  /\ Len(disk.files[tmpPath(StatePath)].data) < Len(disk.data)
  /\ disk.files[StatePath] = disk.oldState
  /\ disk.oldState.exists
  /\ LoadFile(disk.oldState).st # disk.newState

\* C18: every persistent store, the version ledger included, is written by
\* write-temp-then-rename, so a crash during a ledger write leaves the old tag
\* or the new tag readable.
C18_LedgerWriteIsCrashSafe ==
  (disk.job = "ledger" /\ disk.crashed) =>
    readCurrentVersion(disk.files[VersionFile]).tag
      \in {readCurrentVersion(disk.oldLedger).tag, disk.newTag}

\* The number of HTTP 429 answers at the head of a script of exchanges.
RECURSIVE Leading429(_, _)
Leading429(resps, k) ==
  IF k < Len(resps) /\ resps[k + 1].net /\ resps[k + 1].status = 429
    THEN Leading429(resps, k + 1) ELSE k

\* Answered with status 2xx, decodable, asset present.
Successful(resp) ==
  resp.net /\ resp.status >= 200 /\ resp.status < 300 /\ resp.decodes /\ resp.asset

\* C19: when the lookup receives k consecutive HTTP 429 answers, k <= 3, and
\* then a successful one, it makes exactly k retries (k + 1 exchanges), the
\* waits before the retries start at the initial delay, double up to the
\* maximum delay and strictly increase, and the successful tag is returned
\* without error.
C19_RetriesThenSuccess ==
  LET k == Leading429(lookup.resps, 0)
  IN (/\ lookup.done
      /\ lookup.url = UrlLatest
      /\ lookup.cancelAt = 0
      /\ k <= 3
      /\ k < Len(lookup.resps)
      /\ Successful(lookup.resps[k + 1]))
       => /\ lookup.out.err = "nil"
          /\ lookup.out.tag = lookup.resps[k + 1].tag
          /\ lookup.out.calls = k + 1
          /\ Len(lookup.out.waits) = k
          /\ k >= 1 => lookup.out.waits[1] = initialBackoff
          /\ \A j \in 1..(k - 1) :
               /\ lookup.out.waits[j] < lookup.out.waits[j + 1]
               /\ lookup.out.waits[j + 1] =
                    (IF 2 * lookup.out.waits[j] > maxBackoff
                       THEN maxBackoff ELSE 2 * lookup.out.waits[j])

\* A lookup that was answered 429 three times and then with a release.
C19_Witness ==
  /\ lookup.done
  /\ lookup.url = UrlLatest
  /\ lookup.cancelAt = 0
  /\ Leading429(lookup.resps, 0) = 3
  /\ Successful(lookup.resps[4])
  /\ lookup.out.calls = 4

\* A 4xx status other than 429, or a release that lacks the requested asset.
Fatal(resp) ==
  /\ resp.net
  /\ \/ (resp.status >= 400 /\ resp.status < 500 /\ resp.status # 429)
     \/ (resp.status >= 200 /\ resp.status < 300 /\ resp.decodes /\ ~resp.asset)

\* HTTP 429 or a 5xx status.
RetryableStatus(resp) == resp.net /\ (resp.status = 429 \/ resp.status >= 500)

\* C20: a fatal answer (a 4xx status other than 429, or a well-formed release
\* without the requested asset) ends the lookup with an error at that
\* exchange, which is its first one when the answer comes first, and no
\* exchange follows it; after an HTTP 429 or 5xx answer a further exchange is
\* made as long as fewer than maxRetries retries were made and the wait is not
\* cancelled.
C20_FatalEndsRetryableRetries ==
  (lookup.done /\ lookup.url = UrlLatest) =>
    \A j \in 1..lookup.out.calls :
      /\ Fatal(lookup.resps[j]) =>
           /\ lookup.out.calls = j
           /\ lookup.out.err \in {"status", "asset not found"}
           /\ lookup.out.tag = <<>>
      /\ (RetryableStatus(lookup.resps[j]) /\ j <= maxRetries /\ lookup.cancelAt # j) =>
           lookup.out.calls >= j + 1
      /\ (RetryableStatus(lookup.resps[j]) /\ j = maxRetries + 1) =>
           lookup.out.err = "after retries"

\* A lookup whose first answer was a 429, which it retried, and whose second
\* was a 404, with which it ended.
C20_Witness ==
  /\ lookup.done
  /\ lookup.url = UrlLatest
  /\ lookup.resps[1] = RespStatus(429)
  /\ lookup.resps[2] = RespStatus(404)
  /\ lookup.resps[3] = RespOK(TagOf(1))
  /\ lookup.out.calls = 2

\* HTTP 429, a 5xx status or a connection failure.
Transient(resp) == ~resp.net \/ resp.status = 429 \/ resp.status >= 500

\* C21: asset resolution and bundle download retry HTTP 429, 5xx and
\* connection failures: such a failure is surfaced to the caller only after
\* an earlier transient failure of the call has been retried.
C21_ArchiveTransientErrorsRetried ==
  (/\ lookup.done
   /\ lookup.out.err # "nil"
   /\ lookup.out.calls >= 1
   /\ Transient(lookup.resps[lookup.out.calls]))
    => /\ \E j \in 1..(lookup.out.calls - 1) : Transient(lookup.resps[j])
       /\ lookup.out.waits # <<>>

\* C22 as stated: the ledger changes only in the step that ends a cycle in
\* which at least one member was updated; no interactive call changes it.
C22_OnlyTheCycleWritesTheLedger ==
  [][ledger' # ledger => (pc = "finish" /\ cyc.updatedCount >= 1)]_vars

\* C22: the ledger changes only in the step that ends a cycle in which at
\* least one member was updated, or in an Initial provisioning (a call between
\* two cycles that gives an empty manifest its members), which records the
\* baseline; Add, Remove and the manual update never change it.
C22_CycleOrInitialProvisioningWritesTheLedger ==
  [][ledger' # ledger
       => \/ pc = "finish" /\ cyc.updatedCount >= 1
          \/ /\ pc = "idle"
             /\ Load(manifest).users = <<>>
             /\ Load(manifest').users # <<>>
             /\ readCurrentVersion(ledger').tag \in Tags]_vars

\* C22 case: a cycle that skipped one member and updated another has written
\* the ledger and returned.
C22_Witness ==
  /\ pc = "idle"
  /\ h.wrote
  /\ h.skipped >= 1
  /\ cyc.updatedCount >= 1
  /\ readCurrentVersion(ledger).tag = cyc.latestTag

\* C23 as stated: at most one of the commands that call Provision, AddUsers,
\* RemoveUser or UpdateUserCode is in flight, whatever was dispatched before.
C23_OneMutatingCommandInFlight ==
  InFlight(menu.cmds, Mutating) <= 1

\* C24: once ctx is cancelled RunAutoUpdateLoop returns in the end; a loop
\* parked in the select when ctx is cancelled starts no further cycle; a
\* lookup during whose wait k ctx is cancelled returns the cancellation error
\* after k exchanges and k - 1 full waits, and its cycle ends there; a
\* member's sync step taken after the cancellation completes as it does
\* without it, and the cancellation itself changes nothing of the cycle.
C24_CancelledLoopReturns ==
  /\ loop.cancelled ~> loop.phase = "returned"
  /\ [][/\ loop.wake = "done" => (loop'.cycles = loop.cycles /\ pc' = "idle")
        /\ (pc = "fetch" /\ pc' # pc /\ ~loop.cancelled /\ loop'.cancelled)
             => /\ loop'.fetch.err = "context canceled"
                /\ loop'.fetch.calls = loop'.cancelAt
                /\ Len(loop'.fetch.waits) = loop'.cancelAt - 1
                /\ pc' = "idle"
                /\ h'.result = "fetch latest release"
        /\ (loop.cancelled /\ pc = "sync" /\ pc' # pc)
             => (h'.synced = h.synced + 1 /\ cyc'.i = cyc.i + 1)
        /\ (~loop.cancelled /\ loop'.cancelled /\ pc # "fetch")
             => (pc' = pc /\ cyc' = cyc /\ h' = h /\ dirs' = dirs)]_vars

\* C24 case: ctx was cancelled during the second wait of a lookup, a member
\* was synced in an earlier cycle, and the loop has returned.
C24_Witness ==
  /\ loop.phase = "returned"
  /\ loop.cancelAt = 2
  /\ loop.fetch.err = "context canceled"
  /\ loop.cycles >= 2

\* C25: the loop calls checkAndUpdate once before its ticker exists, hence
\* before any tick, and once more for every tick it takes off the ticker,
\* which sends no more ticks than have fired; the interval the ticker is built
\* with is never below one minute: a configured interval below one minute is
\* replaced by one hour, any other is used as it is.
C25_OneCycleAtStartThenOnePerTick ==
  /\ loop.phase = "boot" => (loop.cycles = 0 /\ ~loop.ticker /\ loop.fired = 0)
  /\ loop.phase # "boot"
       => /\ loop.cycles = 1 + loop.taken
          /\ loop.taken <= loop.fired
          /\ loop.interval >= Minute
          /\ loop.CheckInterval < Minute => loop.interval = Hour
          /\ loop.CheckInterval >= Minute => loop.interval = loop.CheckInterval
  /\ (loop.fired = 0 /\ loop.phase # "boot") => loop.cycles = 1
  /\ (loop.cycles = 1 /\ pc # "idle") => (~loop.ticker /\ loop.fired = 0)

\* C25 case: with a configured interval of 59 seconds the loop has run its
\* first cycle and one for each of two ticks.
C25_Witness ==
  /\ loop.CheckInterval = Minute - 1
  /\ loop.interval = Hour
  /\ loop.cycles = 3
  /\ loop.taken = 2
  /\ loop.phase = "select"

\* C26: CheckUserServices returns no error and one status per member, in
\* manifest order; a member's directory result is "the path is a directory",
\* its port is dialed exactly if the port is positive, whatever the directory
\* check gave, and the port result is the outcome of that connect; a member's
\* status is the one it gets when probed alone, and its detail is empty
\* exactly if neither of its own checks failed.
C26_OneIndependentResultPerMember ==
  lookup.done
    => /\ lookup.out.err = "nil"
       /\ Len(lookup.out.statuses) = Len(lookup.users)
       /\ \A k \in 1..Len(lookup.users) :
            LET u  == lookup.users[k]
                s  == lookup.out.statuses[k]
                me == CheckUserServicesOn(<<u>>, <<lookup.paths[k]>>, <<lookup.connects[k]>>)
            IN /\ s.name = u.name
               /\ s.Port = u.port
               /\ s.ServiceDirOK = (lookup.paths[k] = "dir")
               /\ lookup.out.dialed[k] = (u.port > 0)
               /\ s.PortListening = (u.port > 0 /\ lookup.connects[k])
               /\ s = me.statuses[1]
               /\ (s.Detail = <<>>) = (s.ServiceDirOK /\ (s.PortListening \/ u.port <= 0))

\* C26 case: the first member has no directory and a listening port, the
\* second a directory and no listener.
C26_Witness ==
  /\ lookup.done
  /\ Len(lookup.users) = 2
  /\ lookup.paths[1] = "missing"
  /\ lookup.out.dialed[1]
  /\ lookup.out.statuses[1].PortListening
  /\ ~lookup.out.statuses[1].ServiceDirOK
  /\ lookup.out.statuses[2].ServiceDirOK
  /\ ~lookup.out.statuses[2].PortListening
  /\ lookup.out.statuses[2].Detail = <<"no listener">>

\* C27: whatever bundles were extracted and however many syncs, automatic
\* or manual, complete or failed half-way, were made since provisioning, each
\* of config.json, frpc.toml, prism-host and prism of the member is as
\* provisioning left it: with the same content, or still absent.
C27_SyncKeepsInstanceFiles ==
  \A p \in InstanceFiles : lookup.dir[p] = lookup.orig[p]

\* C27 case: after an automatic and a manual sync from a bundle of the second
\* release that holds a config.json and a prism, the member has the server of
\* that release, the config.json provisioning wrote and no prism.
C27_Witness ==
  /\ lookup.syncs = 2
  /\ lookup.manual
  /\ lookup.bundle[<<"config.json">>].data = TagOf(2)
  /\ lookup.bundle[<<"prism">>].data = TagOf(2)
  /\ lookup.dir[<<"server">>].data = TagOf(2)
  /\ lookup.dir[<<"config.json">>] = Written
  /\ lookup.dir[<<"prism">>] = NoFile

\* C28: a restart of a member the OS knows and whose two descriptors are in
\* place, by the update cycle or by the Daemon Registrar, has signalled both
\* the tunnel (frpc) and the relay (server), and its error names exactly the
\* daemons whose kickstart failed.
C28_RestartSignalsBothAndReportsAll ==
  (lookup.n > 0 /\ lookup.known /\ lookup.plists = Daemons) =>
    /\ lookup.kicks = Daemons
    /\ lookup.named = lookup.failing
    /\ (lookup.err = "nil") = (lookup.failing = {})

\* An answer the claim counts as a successful attempt.
C29_Succeeds(a) ==
  a.exit = 0 \/ "already bootstrapped" \in a.output \/ "EEXIST" \in a.output

\* C29: a bootstrapWithRetry made at most retries + 1 = 4 attempts, slept i
\* seconds before its i-th retry, stopped at its first successful attempt,
\* an answer of "already bootstrapped" or "EEXIST" counting as success, and
\* returned an error, that of its last attempt, only if all four attempts
\* failed; for a descriptor that was loaded it returned no error.
C29_BootstrapWithRetry ==
  LET run == lookup.last
  IN run.plist # "none" =>
       /\ run.asked \in 1..(BootRetries + 1)
       /\ run.asked = 4 \/ run.err = NoBootErr
       /\ run.sleeps = [i \in 1..(run.asked - 1) |-> i]
       /\ \A i \in 1..(run.asked - 1) : ~C29_Succeeds(run.script[i])
       /\ (run.err = NoBootErr) = C29_Succeeds(run.script[run.asked])
       /\ run.err # NoBootErr =>
            /\ run.asked = BootRetries + 1
            /\ run.err = BootErr(run.plist, run.script[run.asked])
       /\ run.wasLoaded => run.err = NoBootErr

\* C29 case: in the second call for a member, the server descriptor, loaded
\* by the first call, was answered "EEXIST" at once.
C29_Witness ==
  /\ lookup.n = 2
  /\ lookup.last.plist = "server"
  /\ lookup.last.wasLoaded
  /\ lookup.last.asked = 1
  /\ lookup.last.script[1] = Answer(17, {"EEXIST"})
  /\ lookup.err = "nil"

\* C30: in a cycle every member the cycle has written to has ended its
\* iteration, the members whose iteration has ended are those before the
\* current one in the order of the manifest read at the start of the cycle,
\* and a step of the cycle writes to no member but the current one; so no
\* member is written to before all members ahead of it were synced or skipped.
C30_MembersInManifestOrder ==
  /\ [](h.result = "running" =>
         /\ h.done = 1..(cyc.i - 1)
         /\ h.touched \subseteq h.done
         /\ cyc.i <= Len(cyc.users) + 1)
  /\ [][h.result = "running" /\ h'.touched # h.touched
         => /\ pc = "sync"
            /\ h'.touched = h.touched \cup {cyc.i}
            /\ \A k \in 1..(cyc.i - 1) : k \in h.done]_vars

\* C30 case: the first member was skipped for want of a directory, the
\* second was synced, and the loop has moved past the second.
C30_Witness ==
  /\ h.result = "running"
  /\ cyc.i = 3
  /\ h.touched = {2}
  /\ h.done = {1, 2}

\* A step of checkAndUpdate: the cycle record is that of a cycle begun, and
\* the step is not an interactive call made while the cycle is under way.
CycleStep == h'.result # "none" /\ (h'.disturbed => h.disturbed)

\* C31: no step of a cycle, from the load of the state to the return of
\* checkAndUpdate and whatever the cycle's outcome, changes the persisted
\* manifest.
C31_CycleNeverWritesTheManifest == [][CycleStep => manifest' = manifest]_vars

\* C31 case: a cycle in which an interactive removal took a member out of the
\* manifest has skipped one member, updated another, written the ledger and
\* returned; the manifest holds what the removal saved, not the cycle's snapshot.
C31_Witness ==
  /\ pc = "idle"
  /\ h.result = "nil"
  /\ h.wrote
  /\ h.skipped > 0
  /\ h.disturbed
  /\ Len(cyc.users) = 2
  /\ Len(Load(manifest).users) = 1

\* C32: when a cycle during which a member of its snapshot was removed has
\* returned, no member of the snapshot that is gone from the manifest and
\* from the OS has a service directory.
C32_RemovedMemberHasNoDirectory ==
  (pc = "idle" /\ h.disturbed /\ h.result # "running") =>
    \A k \in 1..Len(cyc.users) :
      LET name == cyc.users[k].name
      IN (name \notin Names(Load(manifest).users) /\ name \notin osUsers)
           => name \notin dirs

\* C33: with AddUsers or UpdateUserCode running beside a cycle, every member
\* the cycle counts as updated was synced from an extract directory holding
\* the whole bundle, so the ledger is not written on the strength of a sync
\* from an emptied or half-extracted directory.
C33_SyncedFromCompleteBundle ==
  \A k \in 1..Len(lookup.from) : lookup.from[k] = BundleFiles

Stranded == Load(manifest).users = <<>> /\ UserName(1) \in osUsers

C35_ProvisionErrorLeavesManifest ==
  [][(lastOp'.op = "provision" /\ lastOp'.err # "nil") => manifest' = manifest]_vars

\* C36: a member that was synced and whose restart failed is not counted as
\* updated; a cycle in which that happened to every member of the snapshot
\* returns without writing the ledger; and the cycle after it, given the same
\* latest tag, does not stop at the comparison with the ledger but goes on to
\* download the bundle and sync the members again.
C36_UnrestartedMemberIsNotCounted ==
  /\ [][(h.result = "running" /\ h'.unrestarted # h.unrestarted)
          => /\ h'.synced = h.synced + 1
             /\ cyc'.updatedCount = cyc.updatedCount
             /\ h'.skipped = h.skipped + 1]_vars
  /\ []((Len(cyc.users) > 0 /\ h.unrestarted = 1..Len(cyc.users)
           /\ h.result \notin {"none", "running"})
          => /\ h.result = "no users were updated"
             /\ ~h.wrote
             /\ readCurrentVersion(ledger).tag # h.tag)
  /\ [][(pc = "finish" /\ h.unrestarted = 1..Len(cyc.users)) => ledger' = ledger]_vars
  /\ [][(pc = "ledger" /\ prev.unrestarted # {} /\ ~prev.ok /\ cyc.latestTag = prev.tag
           /\ prev.unrestarted = 1..Len(cyc.users))
          => pc' = "download"]_vars

\* C36 case: the restart of the only member failed in one cycle, no member
\* was counted, and the cycle after it, with the same latest tag, synced the
\* member again and failed to restart it again.
C36_Witness ==
  /\ prev.unrestarted = {1}
  /\ ~prev.ok
  /\ prev.tag = h.tag
  /\ Len(cyc.users) = 1
  /\ h.synced = 1
  /\ h.unrestarted = {1}
  /\ h.result = "no users were updated"

\* C37: when RemoveUser fails at the deletion of the identity, the engine
\* returns the manifest it was given, with the member in it, nothing is saved
\* and identity and home stay, but before the deletion was tried both daemons
\* of the member were booted out and both descriptor files deleted.
C37_FailedRemovalHasUnregisteredDaemons ==
  [][(lastOp'.op = "remove" /\ lastOp'.err = "delete user")
       => LET name == lastOp'.name
          IN /\ name \in Names(lastOp'.ret)
             /\ lastOp'.ret = Load(manifest).users
             /\ manifest' = manifest
             /\ name \in Names(Load(manifest').users)
             /\ osUsers' = osUsers
             /\ dirs' = dirs
             /\ lastOp'.calls = <<Call("bootout server", name), Call("bootout frpc", name),
                                  Call("remove server plist", name),
                                  Call("remove frpc plist", name),
                                  Call("deleteUser", name)>>]_vars

\* C37 case: the removal of the second of two members failed at the identity
\* deletion; the member is in the manifest and its identity exists.
C37_Witness ==
  /\ lastOp.op = "remove"
  /\ lastOp.err = "delete user"
  /\ lastOp.name = UserName(2)
  /\ Names(Load(manifest).users) = {UserName(1), UserName(2)}
  /\ UserName(2) \in osUsers
  /\ Len(lastOp.calls) = 5

\* C38: a manual update leaves the ledger as it is, whether it succeeds or
\* fails; so a cycle that follows a successful manual update and writes the
\* ledger found the latest tag different from the ledger's, downloaded the
\* bundle and synced a member again before it wrote.
C38_ManualUpdateLeavesTheLedger ==
  /\ [][(pc = "idle" /\ prev'.manual # "none") => ledger' = ledger]_vars
  /\ [][(h.afterManual /\ pc = "ledger" /\ ledger.exists
           /\ readCurrentVersion(ledger).tag # cyc.latestTag) => pc' = "download"]_vars
  /\ [](h.afterManual /\ h.wrote
          => /\ h.downloads = 1
             /\ h.synced > 0
             /\ cyc.updatedCount > 0)

\* C38 case: after a manual update that returned nil, the next cycle synced
\* both members again, restarted a listening one and wrote the ledger.
C38_Witness ==
  /\ h.afterManual
  /\ h.wrote
  /\ h.synced = 2
  /\ h.kicks > 0
  /\ h.result = "nil"

\* C39 as stated: once a manifest has been saved while the ledger is absent,
\* no step creates the ledger.
C39_AbsentLedgerStaysAbsent ==
  [][(manifest.exists /\ ~ledger.exists) => ~ledger'.exists]_vars

\* C39 amended: once a manifest has been saved while the ledger is absent, the
\* only step that creates the ledger is an Initial provisioning of a manifest
\* emptied of its members; Add, Remove, the manual update and the cycle leave
\* it absent, and as long as it is absent a cycle that has the latest tag
\* returns nil at the ledger read, without download or sync.
C39_OnlyReprovisioningCreatesTheLedger ==
  /\ [][(manifest.exists /\ ~ledger.exists /\ ledger'.exists)
          => /\ pc = "idle" /\ pc' = "idle"
             /\ Load(manifest).users = <<>>
             /\ Load(manifest').users # <<>>
             /\ osUsers = {}]_vars
  /\ [][(pc = "ledger" /\ ~ledger.exists)
          => /\ pc' = "idle"
             /\ h'.result = "nil"
             /\ h'.downloads = 0 /\ h'.synced = 0 /\ h'.kicks = 0
             /\ ~ledger'.exists /\ dirs' = dirs]_vars

\* C39 case: with two members and no ledger, after a manual update that
\* returned nil, a cycle learnt the second release and returned nil without
\* a sync.
C39_Witness ==
  /\ ~ledger.exists
  /\ Len(cyc.users) = 2
  /\ h.afterManual
  /\ h.result = "nil"
  /\ h.tag = TagOf(2)
  /\ h.synced = 0
  /\ pc = "idle"

\* C40: every cycle that has started returns to idle, each call it makes
\* returning. The lookup of a cycle makes at most maxRetries + 1 = 4
\* exchanges and sleeps at most maxRetries = 3 times, retryable answers
\* throughout included; the member loop takes the members of the snapshot in
\* order, each one once: while it runs the members done are those before the
\* current one, a member's step moves on by one, and the loop ends with all of
\* them done.
C40_CycleTerminates ==
  /\ (pc # "idle") ~> (pc = "idle")
  /\ [](/\ loop.fetch.calls <= maxRetries + 1
        /\ Len(loop.fetch.waits) <= maxRetries
        /\ (loop.fetch.err = "after retries"
              => (loop.fetch.calls = maxRetries + 1 /\ Len(loop.fetch.waits) = maxRetries)))
  /\ [](pc \in {"stat", "sync"}
          => (cyc.i \in 1..Len(cyc.users) /\ h.done = 1..(cyc.i - 1)))
  /\ [](pc = "finish" => (cyc.i = Len(cyc.users) + 1 /\ h.done = 1..Len(cyc.users)))
  /\ [][(pc \in {"stat", "sync"} /\ h'.done # h.done)
          => (cyc.i \notin h.done /\ h'.done = h.done \cup {cyc.i} /\ cyc'.i = cyc.i + 1)]_vars

\* C40 case: a cycle whose lookup got retryable answers throughout gave up
\* after four exchanges and three waits and is back at idle, the cycle before
\* it having taken every member through the loop and returned nil.
C40_Witness ==
  /\ pc = "idle"
  /\ loop.cycles = 2
  /\ prev.ok
  /\ h.result = "fetch latest release"
  /\ loop.fetch.err = "after retries"
  /\ loop.fetch.calls = maxRetries + 1
  /\ Len(loop.fetch.waits) = maxRetries

====
